---- MODULE Spec2Model ----
(***************************************************************************)
(* The request lifecycle of the interview chatbot web service             *)
(* (src/app.py): the process-wide table ongoing_requests, the /api/ask     *)
(* handler ask_question with its nested generate_with_cancellation, the    *)
(* /api/cancel handler cancel_response, and VoiceInterviewBot's            *)
(* generate_response / _fallback_response.                                 *)
(*                                                                         *)
(* The development server (app.run, src/app.py:295) serves each request    *)
(* on its own thread, so handlers interleave between any two accesses to   *)
(* the shared dictionary; one action below is one such access together     *)
(* with the thread-local code around it.                                   *)
(*                                                                         *)
(* Text is a sequence of one-character strings, so that strip(), lower()   *)
(* and the substring tests are computed rather than assumed.               *)
(***************************************************************************)
EXTENDS Integers, Sequences, FiniteSets, TLC

\* ------------------------------------------------------------------ bounds

\* Number of /api/ask requests and of /api/cancel requests in one run.
NumAsk == 2
NumCancel == 1

\* Requests are numbered in their order of arrival.
Requests == 1..NumAsk
Cancels == 1..NumCancel

\* ------------------------------------------------------------------- text

Whitespace == {" ", "\t", "\n"}

UpperChars == <<"A","B","C","D","E","F","G","H","I","J","K","L","M",
                "N","O","P","Q","R","S","T","U","V","W","X","Y","Z">>
LowerChars == <<"a","b","c","d","e","f","g","h","i","j","k","l","m",
                "n","o","p","q","r","s","t","u","v","w","x","y","z">>

\* str.lower() on one character.
LowerChar(c) ==
    IF \E i \in 1..Len(UpperChars) : UpperChars[i] = c
    THEN LowerChars[CHOOSE i \in 1..Len(UpperChars) : UpperChars[i] = c]
    ELSE c

\* str.lower()
Lower(s) == [i \in 1..Len(s) |-> LowerChar(s[i])]

RECURSIVE LStrip(_)
LStrip(s) ==
    IF s # <<>> /\ Head(s) \in Whitespace THEN LStrip(Tail(s)) ELSE s

RECURSIVE RStrip(_)
RStrip(s) ==
    IF s # <<>> /\ s[Len(s)] \in Whitespace
    THEN RStrip(SubSeq(s, 1, Len(s) - 1))
    ELSE s

\* str.strip()
Strip(s) == RStrip(LStrip(s))

\* Python's `sub in s` on strings; text is the value of s, taken once.
Contains(sub, s) ==
    \E text \in {s} :
        \E i \in 0..(Len(text) - Len(sub)) :
            SubSeq(text, i + 1, i + Len(sub)) = sub

\* The keywords of _fallback_response.
KwLifeStory == <<"l","i","f","e"," ","s","t","o","r","y">>
KwBackground == <<"b","a","c","k","g","r","o","u","n","d">>
KwSuperpower == <<"s","u","p","e","r","p","o","w","e","r">>
KwStrength == <<"s","t","r","e","n","g","t","h">>
KwGrowth == <<"g","r","o","w","t","h">>
KwImprove == <<"i","m","p","r","o","v","e">>
KwMisconception == <<"m","i","s","c","o","n","c","e","p","t","i","o","n">>
KwBoundaries == <<"b","o","u","n","d","a","r","i","e","s">>
KwLimits == <<"l","i","m","i","t","s">>

\* ----------------------------------------------------------- request bodies

\* A JSON key that the body does not carry.
Missing == "<missing>"
\* A local name that was never assigned.
Unbound == "<unbound>"

QBlank == <<" ", "\t">>
QLimits == <<" ", "L", "i", "m", "i", "t", "s", " ">>

QuestionTexts == {<<>>, QBlank, QLimits}

\* The "question" member of a body: absent, null, or a string.
QuestionInputs ==
    {[kind |-> "missing", text |-> <<>>], [kind |-> "null", text |-> <<>>]} \cup
    {[kind |-> "str", text |-> t] : t \in QuestionTexts}

\* The "session_id" member of a body: absent, or a string.
SessionInputs == {Missing, "s1"}

\* request.get_json(): json = FALSE stands for None (no JSON body).
NoBody == [json |-> FALSE, question |-> [kind |-> "missing", text |-> <<>>],
           session_id |-> Missing]

AskBodies ==
    {NoBody} \cup
    {[json |-> TRUE, question |-> q, session_id |-> s] :
        q \in QuestionInputs, s \in SessionInputs}

CancelBodies ==
    {NoBody} \cup
    {[json |-> TRUE, question |-> [kind |-> "missing", text |-> <<>>],
      session_id |-> s] : s \in SessionInputs}

\* A body without session_id read as the empty id.
GetSessionIdBlank(data) ==
    IF data.session_id = Missing THEN "" ELSE data.session_id

\* data.get('session_id', 'default')
GetSessionId(data) ==
    IF data.session_id = Missing THEN "default" ELSE data.session_id

\* data.get('question', ''): the default only replaces an absent key.
GetQuestion(data) ==
    IF data.question.kind = "missing"
    THEN [kind |-> "str", text |-> <<>>]
    ELSE data.question

SessionIds == {GetSessionId([session_id |-> s]) : s \in SessionInputs}

\* ------------------------------------------------------------------ state

VARIABLES
    ongoing_requests,   \* the dict of src/app.py:18: session id -> flag
    ai_assistant,       \* bot.ai_assistant: TRUE when the assistant was built
    apc,                \* where each ask request is in ask_question
    question,           \* ask_question's local `question`
    session_id,         \* ask_question's local `session_id`
    response_text,      \* generate_with_cancellation's local `response_text`
    result,             \* what generate_with_cancellation returns (or raises)
    reply,              \* the HTTP response of each ask request
    calls,              \* how often each ask request invoked the answer source
    cpc,                \* where each cancel request is in cancel_response
    csid,               \* cancel_response's local `session_id`
    creply,             \* the HTTP response of each cancel request
    hist,               \* per ask request: the writes other requests made to
                        \* its session id's entry, by phase of the request
    health,             \* the HTTP response of the latest GET /api/health
    memory,             \* the ConversationMemory of the assistant's bot
    extractor,          \* schema_extractor, the SimpleSchemaExtractor
    clock,              \* datetime.now(), in seconds
    mem_out,            \* what the latest call on the assistant returned
    adds,               \* add_interaction calls since the latest clear_session
    db_queries          \* how often get_schema_context queried the database

vars == <<ongoing_requests, ai_assistant, apc, question, session_id,
          response_text, result, reply, calls, cpc, csid, creply, hist,
          health, memory, extractor, clock, mem_out, adds, db_queries>>

memVars == <<memory, clock, mem_out, adds>>
schemaVars == <<extractor, db_queries>>

askVars == <<apc, question, session_id, response_text, result, reply, calls>>
cancelVars == <<cpc, csid, creply>>

None == "<none>"
Raised == "<raised>"
CancelledText == "Request was cancelled"

\* ------------------------------------------------------- the tracking table

\* ongoing_requests[sid] = flag
DictSet(d, k, v) == [x \in (DOMAIN d) \cup {k} |-> IF x = k THEN v ELSE d[x]]

\* A retirement that removes nothing.
DictPopKeeps(d, k) == d

\* ongoing_requests.pop(sid, None)
DictPop(d, k) == [x \in (DOMAIN d) \ {k} |-> d[x]]

\* ongoing_requests.get(sid, default)
DictGet(d, k, default) == IF k \in DOMAIN d THEN d[k] ELSE default

\* sid in ongoing_requests
DictHas(d, k) == k \in DOMAIN d

EmptyDict == [x \in {} |-> TRUE]

\* The liveness test with the default of get() set to True: an absent entry
\* counts as live.
IsLiveDefaultTrue(d, sid) == DictGet(d, sid, TRUE)

\* The liveness test of lines 131 and 136: ongoing_requests.get(sid, False)
IsLive(d, sid) == DictGet(d, sid, FALSE)

\* ------------------------------------------------ VoiceInterviewBot (app.py)

\* PERSONAL_INFO's fields, named rather than spelled out.
LifeStory == "PERSONAL_INFO.life_story"
Superpower == "PERSONAL_INFO.superpower"
GrowthAreas == "The top 3 areas I'd like to grow in are: PERSONAL_INFO.growth_areas"
Misconception == "PERSONAL_INFO.misconception"
PushingBoundaries == "PERSONAL_INFO.pushing_boundaries"
Generic == "That's a great question! As a PERSONAL_INFO.role with PERSONAL_INFO.experience of experience, ..."

\* _fallback_response with its first two tests in the other order.
FallbackResponseSuperpowerFirst(q) ==
    LET question_lower == Lower(q) IN
    IF Contains(KwSuperpower, question_lower) \/ Contains(KwStrength, question_lower)
    THEN Superpower
    ELSE IF Contains(KwLifeStory, question_lower) \/ Contains(KwBackground, question_lower)
    THEN LifeStory
    ELSE IF Contains(KwGrowth, question_lower) \/ Contains(KwImprove, question_lower)
    THEN GrowthAreas
    ELSE IF Contains(KwMisconception, question_lower)
    THEN Misconception
    ELSE IF Contains(KwBoundaries, question_lower) \/ Contains(KwLimits, question_lower)
    THEN PushingBoundaries
    ELSE Generic

\* VoiceInterviewBot._fallback_response
FallbackResponse(q) ==
    LET question_lower == Lower(q) IN
    IF Contains(KwLifeStory, question_lower) \/ Contains(KwBackground, question_lower)
    THEN LifeStory
    ELSE IF Contains(KwSuperpower, question_lower) \/ Contains(KwStrength, question_lower)
    THEN Superpower
    ELSE IF Contains(KwGrowth, question_lower) \/ Contains(KwImprove, question_lower)
    THEN GrowthAreas
    ELSE IF Contains(KwMisconception, question_lower)
    THEN Misconception
    ELSE IF Contains(KwBoundaries, question_lower) \/ Contains(KwLimits, question_lower)
    THEN PushingBoundaries
    ELSE Generic

\* What one call of the answer source can do.  With the assistant built,
\* answer_question returns a string ("text") or raises ("raise"), and an
\* exception can leave generate_response itself ("escape": the print of line
\* 59 fails and the print of the except clause, line 67, fails again);
\* ask_question's finally and except clauses exist for that path.  Without
\* the assistant, generate_response runs _fallback_response and nothing
\* else: no print, no call that can raise.
DSPyText == "<answer_question's string>"
Trouble == "I'm sorry, I'm having trouble generating a response right now: <e>"

\* A fallback that can raise.
GenOutcomesFallbackRaises(ai) ==
    IF ai THEN {"text", "raise", "escape"} ELSE {"fallback", "escape"}

GenOutcomes(ai) ==
    IF ai THEN {"text", "raise", "escape"} ELSE {"fallback"}

\* ai_assistant.answer_question, as seen by its caller: a string, or an
\* exception.
AnswerQuestion(out) ==
    IF out = "text" THEN DSPyText ELSE Raised

\* generate_response without the test `if self.ai_assistant`: with no
\* assistant the call on None raises AttributeError, which the except clause
\* turns into the apology.
GenerateResponseNoNoneTest(ai, q, out) ==
    IF out = "escape" THEN Raised
    ELSE IF ai
         THEN (IF AnswerQuestion(out) = Raised THEN Trouble ELSE AnswerQuestion(out))
         ELSE Trouble

\* generate_response without its try/except: what answer_question raises
\* leaves generate_response.
GenerateResponseNoCatch(ai, q, out) ==
    IF out = "escape" THEN Raised
    ELSE IF ai THEN AnswerQuestion(out) ELSE FallbackResponse(q)

\* VoiceInterviewBot.generate_response: the string it returns, or Raised
\* when the exception leaves it.
GenerateResponse(ai, q, out) ==
    IF out = "escape" THEN Raised
    ELSE IF ai
         THEN (IF AnswerQuestion(out) = Raised THEN Trouble ELSE AnswerQuestion(out))
         ELSE FallbackResponse(q)

\* ------------------------------- ConversationMemory (memory_manager.py)

\* The further keywords of _categorize_question and get_conversation_summary.
KwSkill == <<"s","k","i","l","l">>
KwTechnology == <<"t","e","c","h","n","o","l","o","g","y">>
KwProgramming == <<"p","r","o","g","r","a","m","m","i","n","g">>
KwFramework == <<"f","r","a","m","e","w","o","r","k">>
KwExperience == <<"e","x","p","e","r","i","e","n","c","e">>
KwJob == <<"j","o","b">>
KwWork == <<"w","o","r","k">>
KwCareer == <<"c","a","r","e","e","r">>
KwProject == <<"p","r","o","j","e","c","t">>
KwBuilt == <<"b","u","i","l","t">>
KwDeveloped == <<"d","e","v","e","l","o","p","e","d">>
KwCreated == <<"c","r","e","a","t","e","d">>
KwStory == <<"s","t","o","r","y">>
KwLife == <<"l","i","f","e">>
KwJourney == <<"j","o","u","r","n","e","y">>

ContainsAny(kws, s) == \E k \in kws : Contains(k, s)

\* The keyword lists shared by _categorize_question (lines 182-190) and
\* topic_keywords (lines 155-161); the two differ in the last two lists.
SkillWords == {KwSkill, KwTechnology, KwProgramming, KwFramework}
ExperienceWords == {KwExperience, KwJob, KwWork, KwCareer}
ProjectWords == {KwProject, KwBuilt, KwDeveloped, KwCreated}

\* The element of a set of one element: The({e(x) : x \in {v}}) is e(v),
\* with v worked out once.
The(S) == CHOOSE x \in S : TRUE

\* ConversationMemory._categorize_question; q_lower = question.lower().
CategorizeQuestion(q) ==
    The({ IF ContainsAny(SkillWords, q_lower) THEN "technical_skills"
          ELSE IF ContainsAny(ExperienceWords, q_lower)
          THEN "professional_experience"
          ELSE IF ContainsAny(ProjectWords, q_lower) THEN "projects"
          ELSE IF ContainsAny({KwSuperpower, KwStrength, KwGrowth}, q_lower)
          THEN "personal_qualities"
          ELSE IF ContainsAny({KwStory, KwBackground, KwLife}, q_lower)
          THEN "background"
          ELSE "general" : q_lower \in {Lower(q)} })

\* topic_keywords of get_conversation_summary, in the dict's order.
TopicKeywords ==
    << [topic |-> "skills", keywords |-> SkillWords],
       [topic |-> "experience", keywords |-> ExperienceWords],
       [topic |-> "projects", keywords |-> ProjectWords],
       [topic |-> "personal",
        keywords |-> {KwSuperpower, KwStrength, KwGrowth, KwMisconception}],
       [topic |-> "background",
        keywords |-> {KwStory, KwBackground, KwLife, KwJourney}] >>

\* `x in list`
InList(x, list) == \E i \in DOMAIN list : list[i] = x

\* The inner loop of lines 165-168 for one question, from topic i on.
RECURSIVE TopicsOfQuestion(_, _, _)
TopicsOfQuestion(q_lower, i, topics) ==
    IF i > Len(TopicKeywords) THEN topics
    ELSE TopicsOfQuestion(q_lower, i + 1,
            IF ContainsAny(TopicKeywords[i].keywords, q_lower)
               /\ ~InList(TopicKeywords[i].topic, topics)
            THEN Append(topics, TopicKeywords[i].topic)
            ELSE topics)

\* The outer loop of lines 163-168.
RECURSIVE ExtractTopics(_, _)
ExtractTopics(questions, topics) ==
    IF questions = <<>> THEN topics
    ELSE ExtractTopics(Tail(questions),
            TopicsOfQuestion(Lower(Head(questions)), 1, topics))

\* f"session_{datetime.now().strftime('%Y%m%d_%H%M%S')}": the name is made
\* from the clock read to the second.
SessionName(now) == <<"session", now>>

\* The object after ConversationMemory.__init__ (lines 17-69).
NewMemory(now, enabled) ==
    [session_id |-> SessionName(now),
     conversation_history |-> <<>>,
     memory_enabled |-> enabled,
     mem0 |-> <<>>,
     local_memory |-> [question_patterns |-> <<>>, topics_discussed |-> <<>>]]

\* ConversationMemory._add_to_local_memory; question_patterns is the dict
\* category -> list, here a function on the categories seen so far.
AddToLocalMemory(lm, q, response) ==
    The({ LET patterns == lm.question_patterns
              old == IF category \in DOMAIN patterns
                     THEN patterns[category] ELSE <<>>
              entry == [question |-> q, response |-> response] IN
          [question_patterns |->
              [c \in (DOMAIN patterns) \cup {category} |->
                  IF c = category THEN Append(old, entry) ELSE patterns[c]],
           topics_discussed |->
              IF InList(category, lm.topics_discussed)
              THEN lm.topics_discussed
              ELSE Append(lm.topics_discussed, category)]
          : category \in {CategorizeQuestion(q)} })

\* What self.memory.add can do when mem0 is enabled: return after storing,
\* or raise; "unused" when mem0 is not enabled.
Mem0Outcomes(mem) ==
    IF mem.memory_enabled THEN {"stored", "raises"} ELSE {"unused"}

\* An add_interaction that writes the local memory in every case.
AddInteractionBoth(mem, q, response, m0) ==
    LET interaction ==
            [question |-> q, response |-> response, session_id |-> mem.session_id]
        appended ==
            [mem EXCEPT !.conversation_history = Append(@, interaction),
                        !.local_memory = AddToLocalMemory(@, q, response)] IN
    IF mem.memory_enabled /\ m0 = "stored"
    THEN [appended EXCEPT !.mem0 = Append(@, interaction)]
    ELSE appended

\* ConversationMemory.add_interaction
AddInteraction(mem, q, response, m0) ==
    LET interaction ==
            [question |-> q, response |-> response, session_id |-> mem.session_id]
        appended ==
            [mem EXCEPT !.conversation_history = Append(@, interaction)] IN
    IF mem.memory_enabled /\ m0 = "stored"
    THEN [appended EXCEPT !.mem0 = Append(@, interaction)]
    ELSE [appended EXCEPT !.local_memory = AddToLocalMemory(@, q, response)]

\* A clear_session that also forgets the local memory.
ClearSessionAll(mem, now) ==
    [mem EXCEPT !.conversation_history = <<>>,
                !.session_id = SessionName(now),
                !.local_memory = [question_patterns |-> <<>>,
                                  topics_discussed |-> <<>>]]

\* A clear_session that only renews the session id.
ClearSessionKeepsHistory(mem, now) ==
    [mem EXCEPT !.session_id = SessionName(now)]

\* ConversationMemory.clear_session
ClearSession(mem, now) ==
    [mem EXCEPT !.conversation_history = <<>>,
                !.session_id = SessionName(now)]

\* list[-limit:]
LastN(list, n) ==
    IF Len(list) <= n THEN list ELSE SubSeq(list, Len(list) - n + 1, Len(list))

\* ConversationMemory._get_local_context: the questions of the lines
\* "Previously asked: ..." under the header, or <<>> for the empty string.
GetLocalContext(lm, q, limit) ==
    LET category == CategorizeQuestion(q) IN
    IF category \in DOMAIN lm.question_patterns
    THEN LET recent == LastN(lm.question_patterns[category], limit) IN
         [i \in DOMAIN recent |-> recent[i].question]
    ELSE <<>>

\* The default of get_relevant_context's parameter `limit`.
ContextLimit == 3

\* ConversationMemory.get_conversation_summary
GetConversationSummary(mem) ==
    IF mem.conversation_history = <<>>
    THEN [summary |-> "No conversation yet", topics |-> <<>>,
          question_count |-> 0]
    ELSE LET questions ==
                [i \in DOMAIN mem.conversation_history |->
                    mem.conversation_history[i].question]
             topics == ExtractTopics(questions, <<>>) IN
         [summary |-> "Discussed <len(topics)> main topics in <len(questions)> questions",
          topics |-> topics,
          question_count |-> Len(questions)]

\* ------------------------------ SimpleSchemaExtractor (neo4j_schema.py)

SchemaUnavailable ==
    "Neo4j schema not available - using basic personal information only."
SchemaError ==
    "Schema extraction error: <e>. Using basic personal information only."

\* What the database holds differs from one extraction to the next.
SchemaTexts == {"schema text 1", "schema text 2"}

\* The object after SimpleSchemaExtractor.__init__ (lines 6-17): driver is
\* FALSE when GraphDatabase.driver raised.
NewExtractor(connected) == [schema_cache |-> None, driver |-> connected]

\* What the queries of lines 28-93 can do, when they are run at all.
SchemaOutcomes(ex) ==
    IF ex.schema_cache # None \/ ~ex.driver
    THEN {"no query"}
    ELSE SchemaTexts \cup {"error"}

\* A get_schema_context that keeps the error text in the cache.
GetSchemaContextCachesError(ex, outcome) ==
    IF ex.schema_cache # None
    THEN [extractor |-> ex, returned |-> ex.schema_cache, queried |-> FALSE]
    ELSE IF ~ex.driver
    THEN [extractor |-> ex, returned |-> SchemaUnavailable, queried |-> FALSE]
    ELSE IF outcome \in SchemaTexts
    THEN [extractor |-> [ex EXCEPT !.schema_cache = outcome],
          returned |-> outcome, queried |-> TRUE]
    ELSE [extractor |-> [ex EXCEPT !.schema_cache = SchemaError],
          returned |-> SchemaError, queried |-> TRUE]

\* SimpleSchemaExtractor.get_schema_context: the object afterwards, the
\* string returned, and whether the database was queried.
GetSchemaContext(ex, outcome) ==
    IF ex.schema_cache # None
    THEN [extractor |-> ex, returned |-> ex.schema_cache, queried |-> FALSE]
    ELSE IF ~ex.driver
    THEN [extractor |-> ex, returned |-> SchemaUnavailable, queried |-> FALSE]
    ELSE IF outcome \in SchemaTexts
    THEN [extractor |-> [ex EXCEPT !.schema_cache = outcome],
          returned |-> outcome, queried |-> TRUE]
    ELSE [extractor |-> ex, returned |-> SchemaError, queried |-> TRUE]

\* ------------------------------------ the assistant (dspy_agent.py)

\* What self.forward, the call of the language model, can do: return a
\* prediction whose response is a text, or raise.
LlmReturns(text) == [raises |-> FALSE, response |-> text]
LlmRaises == [raises |-> TRUE, response |-> <<>>]

\* InterviewBot.process_question (lines 100-132): the context is read from
\* memory, _build_personal_context asks the schema extractor (lines 186-190),
\* the model is called, and only when it returned is the interaction stored.
ProcessQuestion(mem, ex, q, sch, llm, m0) ==
    LET sc == GetSchemaContext(ex, sch) IN
    [memory |-> IF llm.raises THEN mem
                ELSE AddInteraction(mem, q, llm.response, m0),
     extractor |-> sc.extractor,
     queried |-> sc.queried,
     raised |-> llm.raises,
     response |-> llm.response]

\* The shortest response answer_question accepts (line 251).
MinResponseLen == 10

\* DSPyInterviewAssistant.answer_question (lines 246-261), given what
\* process_question did: which of its three returns is taken, and the text
\* returned when it is the response itself.
AnswerQuestionReturn(p) ==
    IF p.raised
    THEN [kind |-> "error", text |-> <<>>]
    ELSE IF p.response = <<>> \/ Len(Strip(p.response)) < MinResponseLen
    THEN [kind |-> "apology", text |-> <<>>]
    ELSE [kind |-> "response", text |-> p.response]

\* ------------------------------------------------------------ HTTP replies

\* GET /api/health: the JSON of lines 244-253 (HTTP 200), or the JSON of the
\* except clause (HTTP 500) when something in the try block raised.
NoHealth == [status_code |-> 0, status |-> None, dspy_status |-> None]
\* A health check that reports the missing assistant as a failure.
HealthReplyNeedsAssistant(ai, raised) ==
    IF raised \/ ~ai
    THEN [status_code |-> 500, status |-> "unhealthy", dspy_status |-> None]
    ELSE [status_code |-> 200, status |-> "healthy",
          dspy_status |-> "initialized"]

HealthReply(ai, raised) ==
    IF raised
    THEN [status_code |-> 500, status |-> "unhealthy", dspy_status |-> None]
    ELSE [status_code |-> 200, status |-> "healthy",
          dspy_status |-> IF ai THEN "initialized" ELSE "not available"]

NoReply ==
    [status |-> 0, json |-> FALSE, success |-> FALSE, response |-> None,
     error |-> None, session_id |-> None]

\* jsonify({"success": False, "error": "No question provided"}), 400
Reply400 ==
    [status |-> 400, json |-> TRUE, success |-> FALSE, response |-> None,
     error |-> "No question provided", session_id |-> None]

\* jsonify({"success": True, "response": ..., "session_id": ...})
Reply200(text, sid) ==
    [status |-> 200, json |-> TRUE, success |-> TRUE, response |-> text,
     error |-> None, session_id |-> sid]

\* jsonify({"success": False, "error": str(e)}), 500
Reply500 ==
    [status |-> 500, json |-> TRUE, success |-> FALSE, response |-> None,
     error |-> "<str(e)>", session_id |-> None]

\* The exception left the handler: the framework answers 500, not the handler.
ReplyEscaped ==
    [status |-> 500, json |-> FALSE, success |-> FALSE, response |-> None,
     error |-> None, session_id |-> None]

NoCancelReply == [status |-> 0, success |-> FALSE, message |-> None, error |-> None]
CancelFound ==
    [status |-> 200, success |-> TRUE, message |-> "Response generation cancelled",
     error |-> None]
CancelNotFound ==
    [status |-> 200, success |-> FALSE, message |-> "No ongoing request to cancel",
     error |-> None]
CancelError ==
    [status |-> 200, success |-> FALSE, message |-> None, error |-> "<str(e)>"]

\* ---------------------------------------------------------------- observer

\* The part of its run an ask request is in, as seen from its session entry:
\* 1 from its registration to its first liveness check, 2 from there to its
\* second liveness check (or to the exception that skips it), 3 from there
\* to its return; 0 otherwise.
Phase(pc) ==
    CASE pc = "check1" -> 1
      [] pc = "generate" -> 2
      [] pc \in {"finally", "except"} -> 3
      [] OTHER -> 0

\* Kept while the request runs and dropped when it returns.  For phase i
\* (1, 2), sig[i] is "cancelled" when a cancel wrote False to the request's
\* entry in that phase and no other ask request registered the id since,
\* "erased" when such a registration followed the cancel, "none" when no
\* cancel wrote in the phase; late is TRUE when a cancel wrote in phase 3;
\* shared is TRUE when another ask request for the same id was registered
\* and not yet returned at some moment of the request's phases 1 to 3.
NoHist == [sig |-> <<"none", "none">>, late |-> FALSE, shared |-> FALSE]

NoteOne(h, ph, kind) ==
    IF ph = 3
    THEN [h EXCEPT !.late = (@ \/ kind = "cancel")]
    ELSE [h EXCEPT !.sig[ph] =
            IF kind = "cancel" THEN "cancelled"
            ELSE IF @ = "cancelled" THEN "erased" ELSE @]

\* Records that `kind` ("cancel": False, "register": True) was written to
\* the entry of session id s by someone other than ask request `actor`.
Note(h, s, kind, actor) ==
    [r \in Requests |->
        IF r # actor /\ session_id[r] = s /\ Phase(apc[r]) # 0
        THEN [NoteOne(h[r], Phase(apc[r]), kind) EXCEPT
                !.shared = (@ \/ kind = "register")]
        ELSE IF r = actor /\ kind = "register"
        THEN [h[r] EXCEPT !.shared =
                \E r2 \in Requests \ {r} :
                    session_id[r2] = s /\ Phase(apc[r2]) # 0]
        ELSE h[r]]

\* ------------------------------------------------------------------- Init

\* VoiceInterviewBot.__init__: the assistant is kept when its constructor
\* returns, and None (FALSE here) takes its place when the constructor raises.
ConstructOutcomes == {"built", "raises"}
NewBot(outcome) == IF outcome = "raises" THEN FALSE ELSE TRUE

\* Nothing has been called on the assistant yet.
NoOut ==
    [call |-> "none", kind |-> "none", text |-> <<>>, context |-> <<>>,
     summary |-> GetConversationSummary(NewMemory(0, FALSE)),
     schema |-> None]

\* The state after import.  The assistant's collaborators are those of an
\* installation without a mem0 key and without a reachable Neo4j: the memory
\* is local, the extractor has no driver.
Init ==
    /\ ongoing_requests = EmptyDict
    /\ ai_assistant \in {NewBot(o) : o \in ConstructOutcomes}
    /\ apc = [r \in Requests |-> "idle"]
    /\ question = [r \in Requests |-> <<>>]
    /\ session_id = [r \in Requests |-> Unbound]
    /\ response_text = [r \in Requests |-> None]
    /\ result = [r \in Requests |-> None]
    /\ reply = [r \in Requests |-> NoReply]
    /\ calls = [r \in Requests |-> 0]
    /\ cpc = [c \in Cancels |-> "idle"]
    /\ csid = [c \in Cancels |-> Unbound]
    /\ creply = [c \in Cancels |-> NoCancelReply]
    /\ hist = [r \in Requests |-> NoHist]
    /\ health = NoHealth
    /\ memory = NewMemory(0, FALSE)
    /\ extractor = NewExtractor(FALSE)
    /\ clock = 0
    /\ mem_out = NoOut
    /\ adds = 0
    /\ db_queries = 0

\* ------------------------------------------------- /api/ask: ask_question

\* The registration moved above the validation of the question.
AskReceiveRegisterFirst(r, data) ==
    /\ apc[r] = "idle"
    /\ \A r2 \in Requests : r2 < r => apc[r2] # "idle"
    /\ IF ~data.json \/ GetQuestion(data).kind = "null"
       THEN /\ apc' = [apc EXCEPT ![r] = "except"]
            /\ UNCHANGED <<question, session_id, reply, ongoing_requests, hist>>
       ELSE LET q == Strip(GetQuestion(data).text)
                sid == GetSessionId(data) IN
            /\ question' = [question EXCEPT ![r] = q]
            /\ session_id' = [session_id EXCEPT ![r] = sid]
            /\ ongoing_requests' = DictSet(ongoing_requests, sid, TRUE)
            /\ IF q = <<>>
               THEN /\ reply' = [reply EXCEPT ![r] = Reply400]
                    /\ apc' = [apc EXCEPT ![r] = "done"]
                    /\ UNCHANGED hist
               ELSE /\ hist' = Note(hist, sid, "register", r)
                    /\ apc' = [apc EXCEPT ![r] = "check1"]
                    /\ UNCHANGED reply
    /\ UNCHANGED <<ai_assistant, health, memVars, schemaVars, response_text, result, calls, cancelVars>>

\* Registration that keeps an existing entry (setdefault) instead of
\* overwriting it.
AskReceiveSetDefault(r, data) ==
    /\ apc[r] = "idle"
    /\ \A r2 \in Requests : r2 < r => apc[r2] # "idle"
    /\ IF ~data.json \/ GetQuestion(data).kind = "null"
       THEN /\ apc' = [apc EXCEPT ![r] = "except"]
            /\ UNCHANGED <<question, session_id, reply, ongoing_requests, hist>>
       ELSE LET q == Strip(GetQuestion(data).text)
                sid == GetSessionId(data) IN
            /\ question' = [question EXCEPT ![r] = q]
            /\ session_id' = [session_id EXCEPT ![r] = sid]
            /\ IF q = <<>>
               THEN /\ reply' = [reply EXCEPT ![r] = Reply400]
                    /\ apc' = [apc EXCEPT ![r] = "done"]
                    /\ UNCHANGED <<ongoing_requests, hist>>
               ELSE /\ ongoing_requests' =
                          IF DictHas(ongoing_requests, sid)
                          THEN ongoing_requests
                          ELSE DictSet(ongoing_requests, sid, TRUE)
                    /\ hist' = Note(hist, sid, "register", r)
                    /\ apc' = [apc EXCEPT ![r] = "check1"]
                    /\ UNCHANGED reply
    /\ UNCHANGED <<ai_assistant, health, memVars, schemaVars, response_text, result, calls, cancelVars>>

\* Lines 118-126: read the body, strip the question, reject an empty one,
\* else register: ongoing_requests[session_id] = True.  data.get on None and
\* None.strip() raise before session_id is assigned.
AskReceive(r, data) ==
    /\ apc[r] = "idle"
    /\ \A r2 \in Requests : r2 < r => apc[r2] # "idle"
    /\ IF ~data.json \/ GetQuestion(data).kind = "null"
       THEN /\ apc' = [apc EXCEPT ![r] = "except"]
            /\ UNCHANGED <<question, session_id, reply, ongoing_requests, hist>>
       ELSE LET q == Strip(GetQuestion(data).text)
                sid == GetSessionId(data) IN
            /\ question' = [question EXCEPT ![r] = q]
            /\ session_id' = [session_id EXCEPT ![r] = sid]
            /\ IF q = <<>>
               THEN /\ reply' = [reply EXCEPT ![r] = Reply400]
                    /\ apc' = [apc EXCEPT ![r] = "done"]
                    /\ UNCHANGED <<ongoing_requests, hist>>
               ELSE /\ ongoing_requests' = DictSet(ongoing_requests, sid, TRUE)
                    /\ hist' = Note(hist, sid, "register", r)
                    /\ apc' = [apc EXCEPT ![r] = "check1"]
                    /\ UNCHANGED reply
    /\ UNCHANGED <<ai_assistant, health, memVars, schemaVars, response_text, result, calls, cancelVars>>

\* The first liveness check with its `not` dropped.
Check1Inverted(r) ==
    /\ apc[r] = "check1"
    /\ IF IsLive(ongoing_requests, session_id[r])
       THEN /\ result' = [result EXCEPT ![r] = CancelledText]
            /\ apc' = [apc EXCEPT ![r] = "finally"]
       ELSE /\ apc' = [apc EXCEPT ![r] = "generate"]
            /\ UNCHANGED result
    /\ UNCHANGED <<ongoing_requests, ai_assistant, health, memVars, schemaVars, question, session_id,
                   response_text, reply, calls, cancelVars, hist>>

\* Lines 131-132: the first liveness check.
Check1(r) ==
    /\ apc[r] = "check1"
    /\ IF ~IsLive(ongoing_requests, session_id[r])
       THEN /\ result' = [result EXCEPT ![r] = CancelledText]
            /\ apc' = [apc EXCEPT ![r] = "finally"]
       ELSE /\ apc' = [apc EXCEPT ![r] = "generate"]
            /\ UNCHANGED result
    /\ UNCHANGED <<ongoing_requests, ai_assistant, health, memVars, schemaVars, question, session_id,
                   response_text, reply, calls, cancelVars, hist>>

\* What the call of generate_response leaves behind.  When the assistant
\* answers (outcome "text": the language model returned a text),
\* process_question has asked the schema extractor and stored the
\* interaction in the conversation memory; the fallback and the calls that
\* raise store nothing.
Recorded(q, out) ==
    IF ai_assistant /\ out = "text"
    THEN \E sch \in SchemaOutcomes(extractor), m0 \in Mem0Outcomes(memory) :
            \E p \in {ProcessQuestion(memory, extractor, q, sch,
                                     LlmReturns(DSPyText), m0)} :
            /\ adds' = adds + 1
            /\ memory' = p.memory
            /\ extractor' = p.extractor
            /\ db_queries' = db_queries + (IF p.queried THEN 1 ELSE 0)
    ELSE UNCHANGED <<memory, extractor, adds, db_queries>>

\* A generation that calls the answer source a second time when the first
\* call came back with the apology.
GenerateRetries(r) ==
    /\ apc[r] = "generate"
    /\ apc' = [apc EXCEPT ![r] = "finally"]
    /\ \E out \in GenOutcomes(ai_assistant) :
         \E g \in {GenerateResponse(ai_assistant, question[r], out)} :
         /\ Recorded(question[r], out)
         /\ calls' = [calls EXCEPT ![r] = @ + (IF g = Trouble THEN 2 ELSE 1)]
         /\ IF g = Raised
            THEN /\ result' = [result EXCEPT ![r] = Raised]
                 /\ UNCHANGED response_text
            ELSE /\ response_text' = [response_text EXCEPT ![r] = g]
                 /\ IF ~IsLive(ongoing_requests, session_id[r])
                    THEN result' = [result EXCEPT ![r] = CancelledText]
                    ELSE result' = [result EXCEPT ![r] = g]
    /\ UNCHANGED <<ongoing_requests, ai_assistant, health, clock, mem_out,
                   question, session_id, reply, cancelVars, hist>>

\* A generation whose interaction is stored only when the request is still
\* live after the call.
GenerateRecordsIfLive(r) ==
    /\ apc[r] = "generate"
    /\ apc' = [apc EXCEPT ![r] = "finally"]
    /\ \E out \in GenOutcomes(ai_assistant) :
         \E g \in {GenerateResponse(ai_assistant, question[r], out)} :
         /\ IF IsLive(ongoing_requests, session_id[r])
            THEN Recorded(question[r], out)
            ELSE UNCHANGED <<memory, extractor, adds, db_queries>>
         /\ IF g = Raised
            THEN /\ result' = [result EXCEPT ![r] = Raised]
                 /\ UNCHANGED response_text
            ELSE /\ response_text' = [response_text EXCEPT ![r] = g]
                 /\ IF ~IsLive(ongoing_requests, session_id[r])
                    THEN result' = [result EXCEPT ![r] = CancelledText]
                    ELSE result' = [result EXCEPT ![r] = g]
    /\ calls' = [calls EXCEPT ![r] = @ + 1]
    /\ UNCHANGED <<ongoing_requests, ai_assistant, health, clock, mem_out, question, session_id, reply,
                   cancelVars, hist>>

\* The generation without the second liveness check of lines 136-137.
GenerateNoRecheck(r) ==
    /\ apc[r] = "generate"
    /\ apc' = [apc EXCEPT ![r] = "finally"]
    /\ \E out \in GenOutcomes(ai_assistant) :
         \E g \in {GenerateResponse(ai_assistant, question[r], out)} :
         /\ Recorded(question[r], out)
         /\ IF g = Raised
            THEN /\ result' = [result EXCEPT ![r] = Raised]
                 /\ UNCHANGED response_text
            ELSE /\ response_text' = [response_text EXCEPT ![r] = g]
                 /\ result' = [result EXCEPT ![r] = g]
    /\ calls' = [calls EXCEPT ![r] = @ + 1]
    /\ UNCHANGED <<ongoing_requests, ai_assistant, health, clock, mem_out, question, session_id, reply,
                   cancelVars, hist>>

\* Lines 134-139: response_text = bot.generate_response(question), a
\* blocking call that touches no shared state, and on its return the second
\* liveness check.  The request is in state "generate" for as long as the
\* call runs; an exception skips the check.
Generate(r) ==
    /\ apc[r] = "generate"
    /\ apc' = [apc EXCEPT ![r] = "finally"]
    /\ \E out \in GenOutcomes(ai_assistant) :
         \E g \in {GenerateResponse(ai_assistant, question[r], out)} :
         /\ Recorded(question[r], out)
         /\ IF g = Raised
            THEN /\ result' = [result EXCEPT ![r] = Raised]
                 /\ UNCHANGED response_text
            ELSE /\ response_text' = [response_text EXCEPT ![r] = g]
                 /\ IF ~IsLive(ongoing_requests, session_id[r])
                    THEN result' = [result EXCEPT ![r] = CancelledText]
                    ELSE result' = [result EXCEPT ![r] = g]
    /\ calls' = [calls EXCEPT ![r] = @ + 1]
    /\ UNCHANGED <<ongoing_requests, ai_assistant, health, clock, mem_out, question, session_id, reply,
                   cancelVars, hist>>

\* A cleanup that runs only when an answer is returned: the cancelled and the
\* failed request keep their entry.
FinallyOnlyOnAnswer(r) ==
    /\ apc[r] = "finally"
    /\ ongoing_requests' =
          IF result[r] \in {Raised, CancelledText}
          THEN ongoing_requests
          ELSE DictPop(ongoing_requests, session_id[r])
    /\ IF result[r] = Raised
       THEN /\ apc' = [apc EXCEPT ![r] = "except"]
            /\ UNCHANGED <<reply, hist>>
       ELSE /\ reply' = [reply EXCEPT ![r] = Reply200(result[r], session_id[r])]
            /\ apc' = [apc EXCEPT ![r] = "done"]
            /\ hist' = [hist EXCEPT ![r] = NoHist]
    /\ UNCHANGED <<ai_assistant, health, memVars, schemaVars, question, session_id, response_text, result,
                   calls, cancelVars>>

\* A third liveness test made when the answer is sent.
FinallyRecheck(r) ==
    /\ apc[r] = "finally"
    /\ ongoing_requests' = DictPop(ongoing_requests, session_id[r])
    /\ IF result[r] = Raised
       THEN /\ apc' = [apc EXCEPT ![r] = "except"]
            /\ UNCHANGED <<reply, hist>>
       ELSE /\ reply' = [reply EXCEPT ![r] =
                  Reply200(IF IsLive(ongoing_requests, session_id[r])
                           THEN result[r] ELSE CancelledText, session_id[r])]
            /\ apc' = [apc EXCEPT ![r] = "done"]
            /\ hist' = [hist EXCEPT ![r] = NoHist]
    /\ UNCHANGED <<ai_assistant, health, memVars, schemaVars, question, session_id, response_text, result,
                   calls, cancelVars>>

\* A cleanup that waits while a cancel request is between its membership
\* test and its write.
FinallyWaitsForCancel(r) ==
    /\ apc[r] = "finally"
    /\ \A c \in Cancels : ~(cpc[c] = "write" /\ csid[c] = session_id[r])
    /\ ongoing_requests' = DictPop(ongoing_requests, session_id[r])
    /\ IF result[r] = Raised
       THEN /\ apc' = [apc EXCEPT ![r] = "except"]
            /\ UNCHANGED <<reply, hist>>
       ELSE /\ reply' = [reply EXCEPT ![r] = Reply200(result[r], session_id[r])]
            /\ apc' = [apc EXCEPT ![r] = "done"]
            /\ hist' = [hist EXCEPT ![r] = NoHist]
    /\ UNCHANGED <<ai_assistant, health, memVars, schemaVars, question, session_id, response_text, result,
                   calls, cancelVars>>

\* Lines 140-151: finally: ongoing_requests.pop(session_id, None); then a
\* returned value is sent as the JSON answer, and an exception travels on to
\* the except clause of line 153.
Finally(r) ==
    /\ apc[r] = "finally"
    /\ ongoing_requests' = DictPop(ongoing_requests, session_id[r])
    /\ IF result[r] = Raised
       THEN /\ apc' = [apc EXCEPT ![r] = "except"]
            /\ UNCHANGED <<reply, hist>>
       ELSE /\ reply' = [reply EXCEPT ![r] = Reply200(result[r], session_id[r])]
            /\ apc' = [apc EXCEPT ![r] = "done"]
            /\ hist' = [hist EXCEPT ![r] = NoHist]
    /\ UNCHANGED <<ai_assistant, health, memVars, schemaVars, question, session_id, response_text, result,
                   calls, cancelVars>>

\* Lines 153-155: except Exception: pop again and answer 500.  With
\* session_id never assigned the pop itself raises and nothing is caught.
Except(r) ==
    /\ apc[r] = "except"
    /\ IF session_id[r] = Unbound
       THEN /\ reply' = [reply EXCEPT ![r] = ReplyEscaped]
            /\ UNCHANGED ongoing_requests
       ELSE /\ ongoing_requests' = DictPop(ongoing_requests, session_id[r])
            /\ reply' = [reply EXCEPT ![r] = Reply500]
    /\ apc' = [apc EXCEPT ![r] = "done"]
    /\ hist' = [hist EXCEPT ![r] = NoHist]
    /\ UNCHANGED <<ai_assistant, health, memVars, schemaVars, question, session_id, response_text, result,
                   calls, cancelVars>>

\* --------------------------------------------- /api/cancel: cancel_response

\* cancel_response without the membership test of line 164: the flag is
\* written whether or not the session id has an entry.
CancelReceiveNoTest(c, data) ==
    /\ cpc[c] = "idle"
    /\ \A c2 \in Cancels : c2 < c => cpc[c2] # "idle"
    /\ IF ~data.json
       THEN /\ creply' = [creply EXCEPT ![c] = CancelError]
            /\ cpc' = [cpc EXCEPT ![c] = "done"]
            /\ UNCHANGED csid
       ELSE /\ csid' = [csid EXCEPT ![c] = GetSessionId(data)]
            /\ cpc' = [cpc EXCEPT ![c] = "write"]
            /\ UNCHANGED creply
    /\ UNCHANGED <<ongoing_requests, ai_assistant, health, memVars, schemaVars, askVars, hist>>

\* Lines 160-164 and 167-171: read the body (data.get on None raises and is
\* caught at lines 170-171), then the test `session_id in ongoing_requests`.
CancelReceive(c, data) ==
    /\ cpc[c] = "idle"
    /\ \A c2 \in Cancels : c2 < c => cpc[c2] # "idle"
    /\ IF ~data.json
       THEN /\ creply' = [creply EXCEPT ![c] = CancelError]
            /\ cpc' = [cpc EXCEPT ![c] = "done"]
            /\ UNCHANGED csid
       ELSE /\ csid' = [csid EXCEPT ![c] = GetSessionId(data)]
            /\ IF DictHas(ongoing_requests, GetSessionId(data))
               THEN /\ cpc' = [cpc EXCEPT ![c] = "write"]
                    /\ UNCHANGED creply
               ELSE /\ creply' = [creply EXCEPT ![c] = CancelNotFound]
                    /\ cpc' = [cpc EXCEPT ![c] = "done"]
    /\ UNCHANGED <<ongoing_requests, ai_assistant, health, memVars, schemaVars, askVars, hist>>

\* The cancel signal written with the wrong literal.
CancelWriteTrue(c) ==
    /\ cpc[c] = "write"
    /\ ongoing_requests' = DictSet(ongoing_requests, csid[c], TRUE)
    /\ hist' = Note(hist, csid[c], "cancel", 0)
    /\ creply' = [creply EXCEPT ![c] = CancelFound]
    /\ cpc' = [cpc EXCEPT ![c] = "done"]
    /\ UNCHANGED <<ai_assistant, health, memVars, schemaVars, askVars, csid>>

\* Lines 165-166: ongoing_requests[session_id] = False, then answer.
CancelWrite(c) ==
    /\ cpc[c] = "write"
    /\ ongoing_requests' = DictSet(ongoing_requests, csid[c], FALSE)
    /\ hist' = Note(hist, csid[c], "cancel", 0)
    /\ creply' = [creply EXCEPT ![c] = CancelFound]
    /\ cpc' = [cpc EXCEPT ![c] = "done"]
    /\ UNCHANGED <<ai_assistant, health, memVars, schemaVars, askVars, csid>>

\* -------------------------------------------------------------------- Next

Next ==
    \/ \E r \in Requests, data \in AskBodies : AskReceive(r, data)
    \/ \E r \in Requests : Check1(r)
    \/ \E r \in Requests : Generate(r)
    \/ \E r \in Requests : Finally(r)
    \/ \E r \in Requests : Except(r)
    \/ \E c \in Cancels, data \in CancelBodies : CancelReceive(c, data)
    \/ \E c \in Cancels : CancelWrite(c)

Spec == Init /\ [][Next]_vars

\* ------------------------------------------------------ GET /api/health

\* health_check (lines 225-260): reads Config.OPENAI_API_KEY, bot.ai_assistant
\* and PERSONAL_INFO.name, writes nothing, and answers.  `raised` is the
\* except clause of the handler: something in its try block failed.
HealthCheck(raised) ==
    /\ health' = HealthReply(ai_assistant, raised)
    /\ UNCHANGED <<ongoing_requests, ai_assistant, memVars, schemaVars, askVars,
                   cancelVars, hist>>

\* ------------------------------------- one ask at a time, any number of
\* ------------------------------------- cancels

\* The server thread that finished a cancel request takes the next one.
CancelAgain(c) ==
    /\ cpc[c] = "done"
    /\ cpc' = [cpc EXCEPT ![c] = "idle"]
    /\ csid' = [csid EXCEPT ![c] = Unbound]
    /\ creply' = [creply EXCEPT ![c] = NoCancelReply]
    /\ UNCHANGED <<ongoing_requests, ai_assistant, health, memVars, schemaVars, askVars, hist>>

\* An ask request that arrives when no other ask request is being served.
AskReceiveAlone(r, data) ==
    /\ \A r2 \in Requests \ {r} : apc[r2] \in {"idle", "done"}
    /\ AskReceive(r, data)

NextSerialAsk ==
    \/ \E r \in Requests, data \in AskBodies : AskReceiveAlone(r, data)
    \/ \E r \in Requests : Check1(r)
    \/ \E r \in Requests : Generate(r)
    \/ \E r \in Requests : Finally(r)
    \/ \E r \in Requests : Except(r)
    \/ \E c \in Cancels, data \in CancelBodies : CancelReceive(c, data)
    \/ \E c \in Cancels : CancelWrite(c)
    \/ \E c \in Cancels : CancelAgain(c)

SpecSerialAsk == Init /\ [][NextSerialAsk]_vars

\* ------------------------------------- concurrent asks, any number of
\* ------------------------------------- cancels, every handler thread runs

NextBusy ==
    \/ \E r \in Requests, data \in AskBodies : AskReceive(r, data)
    \/ \E r \in Requests : Check1(r)
    \/ \E r \in Requests : Generate(r)
    \/ \E r \in Requests : Finally(r)
    \/ \E r \in Requests : Except(r)
    \/ \E c \in Cancels, data \in CancelBodies : CancelReceive(c, data)
    \/ \E c \in Cancels : CancelWrite(c)
    \/ \E c \in Cancels : CancelAgain(c)

\* The next step of the handler thread of a received ask request; the
\* position of the thread enables at most one of the four.
AskStep(r) == Check1(r) \/ Generate(r) \/ Finally(r) \/ Except(r)

\* The thread of a received ask request is scheduled again and again (the
\* server is threaded, nothing in the handler waits for another thread), and
\* the call of generate_response comes back.  Nothing is assumed about the
\* arrival or the progress of cancel requests.
SpecBusyFair ==
    /\ Init
    /\ [][NextBusy]_vars
    /\ \A r \in Requests : WF_vars(AskStep(r))

\* ------------------------------------- one ask at a time, cancels, and any
\* ------------------------------------- number of health checks

NextHealth ==
    \/ \E r \in Requests, data \in AskBodies : AskReceiveAlone(r, data)
    \/ \E r \in Requests : Check1(r)
    \/ \E r \in Requests : Generate(r)
    \/ \E r \in Requests : Finally(r)
    \/ \E r \in Requests : Except(r)
    \/ \E c \in Cancels, data \in CancelBodies : CancelReceive(c, data)
    \/ \E c \in Cancels : CancelWrite(c)
    \/ \E raised \in BOOLEAN : HealthCheck(raised)

SpecHealth == Init /\ [][NextHealth]_vars

\* ------------------------------------- ask requests served by the fallback

\* Questions for _fallback_response: each keyword group alone, in upper and
\* mixed case, two groups in one question (the later group's keyword first in
\* the text), and questions with no keyword.
QBackground == <<"m", "y", " ">> \o KwBackground
QLifeStory == <<"L", "i", "f", "e", " ", "S", "t", "o", "r", "y">>
QSuperpower ==
    <<"W", "h", "a", "t", "'", "s", " ", "y", "o", "u", "r", " ">>
        \o KwSuperpower \o <<"?">>
QStrength == <<"S", "T", "R", "E", "N", "G", "T", "H">>
QStrengthBackground == KwStrength \o <<" ">> \o KwBackground
QGrowth == KwGrowth
QLimitsImprove == KwLimits \o <<" ">> \o KwImprove
QBoundariesMisconception == KwBoundaries \o <<" ">> \o KwMisconception
QBoundaries == KwBoundaries
QLifestory == <<"l", "i", "f", "e", "s", "t", "o", "r", "y">>
QHello == <<"h", "e", "l", "l", "o">>

FallbackQuestions ==
    {QBlank, QBackground, QLifeStory, QSuperpower, QStrength,
     QStrengthBackground, QGrowth, QLimitsImprove, QBoundariesMisconception,
     QBoundaries, QLimits, QLifestory, QHello}

FallbackBodies ==
    {NoBody} \cup
    {[json |-> TRUE, question |-> [kind |-> "str", text |-> q],
      session_id |-> "s1"] : q \in FallbackQuestions}

\* The bot whose assistant could not be built.
InitFallback ==
    /\ Init
    /\ ai_assistant = NewBot("raises")

NextFallback ==
    \/ \E r \in Requests, data \in FallbackBodies : AskReceive(r, data)
    \/ \E r \in Requests : Check1(r)
    \/ \E r \in Requests : Generate(r)
    \/ \E r \in Requests : Finally(r)
    \/ \E r \in Requests : Except(r)

SpecFallback == InitFallback /\ [][NextFallback]_vars

\* ------------------------------------- the assistant, its memory and its
\* ------------------------------------- schema extractor, call by call

\* Calls of add_interaction, and of the database, the model follows.
MaxAdds == 2
MaxQueries == 2
\* Seconds the clock of clear_session advances.
MaxClock == 1

appVars == <<ongoing_requests, ai_assistant, health, askVars, cancelVars, hist>>

\* Texts the language model returns: ten characters; nine characters; nine
\* characters between blanks; nothing.
TextTen == <<"I", " ", "b", "u", "i", "l", "d", " ", "A", "I">>
TextNine == <<"I", " ", "l", "i", "k", "e", " ", "A", "I">>
TextPaddedNine == <<" ">> \o TextNine \o <<" ", " ">>
TextEmpty == <<>>

LlmTexts == {TextTen, TextNine, TextPaddedNine, TextEmpty}
LlmOutcomes == {LlmReturns(t) : t \in LlmTexts} \cup {LlmRaises}

\* The questions and the model's outcomes of the runs that follow the
\* memory: a question of the category personal_qualities and one of the
\* category background; a text that is returned, one that is too short, and
\* a failure.
AssistantQuestions == {QStrength, QBackground}
AssistantLlmOutcomes == {LlmReturns(TextTen), LlmReturns(TextPaddedNine), LlmRaises}

\* What self.memory.search can do when mem0 is enabled.
SearchOutcomes(mem) ==
    IF mem.memory_enabled THEN {"results", "nothing", "raises"} ELSE {"unused"}

\* ConversationMemory.get_relevant_context: the mem0 block when the search
\* came back with results, else what _get_local_context gives.
GetRelevantContext(mem, q, found) ==
    IF mem.memory_enabled /\ found = "results"
    THEN [kind |-> "mem0", questions |-> <<>>]
    ELSE [kind |-> "local",
          questions |-> GetLocalContext(mem.local_memory, q, ContextLimit)]

RECURSIVE SumLen(_, _)
SumLen(f, S) ==
    IF S = {} THEN 0
    ELSE LET c == CHOOSE x \in S : TRUE IN Len(f[c]) + SumLen(f, S \ {c})

\* The interactions held by the two backing stores.
StoredCount(mem) ==
    Len(mem.mem0)
        + SumLen(mem.local_memory.question_patterns,
                 DOMAIN mem.local_memory.question_patterns)

\* Every outcome of the schema queries, of mem0's add and of mem0's search.
AllSchemaOutcomes == SchemaTexts \cup {"error", "no query"}
AllMem0Outcomes == {"stored", "raises", "unused"}
AllSearchOutcomes == {"results", "nothing", "raises", "unused"}

\* The assistant was built; mem0 is enabled or not; the Neo4j driver could
\* not be created.
InitAssistant ==
    /\ ongoing_requests = EmptyDict
    /\ ai_assistant = NewBot("built")
    /\ apc = [r \in Requests |-> "idle"]
    /\ question = [r \in Requests |-> <<>>]
    /\ session_id = [r \in Requests |-> Unbound]
    /\ response_text = [r \in Requests |-> None]
    /\ result = [r \in Requests |-> None]
    /\ reply = [r \in Requests |-> NoReply]
    /\ calls = [r \in Requests |-> 0]
    /\ cpc = [c \in Cancels |-> "idle"]
    /\ csid = [c \in Cancels |-> Unbound]
    /\ creply = [c \in Cancels |-> NoCancelReply]
    /\ hist = [r \in Requests |-> NoHist]
    /\ health = NoHealth
    /\ \E enabled \in BOOLEAN : memory = NewMemory(0, enabled)
    /\ extractor = NewExtractor(FALSE)
    /\ clock = 0
    /\ mem_out = NoOut
    /\ adds = 0
    /\ db_queries = 0

\* An answer_question that stores the interaction only when the response
\* passed the length test.
AnswerQuestionCallStoresProper(q, sch, llm, m0) ==
    /\ sch \in SchemaOutcomes(extractor)
    /\ m0 \in Mem0Outcomes(memory)
    /\ StoredCount(memory) < MaxAdds
    /\ \E p \in {ProcessQuestion(memory, extractor, q, sch, llm, m0)} :
         \E ret \in {AnswerQuestionReturn(p)} :
         /\ p.queried => db_queries < MaxQueries
         /\ memory' = IF ret.kind = "response" THEN p.memory ELSE memory
         /\ extractor' = p.extractor
         /\ adds' = IF ret.kind = "response" THEN adds + 1 ELSE adds
         /\ db_queries' = db_queries + (IF p.queried THEN 1 ELSE 0)
         /\ mem_out' = [NoOut EXCEPT !.call = "answer_question",
                                     !.kind = ret.kind, !.text = ret.text]
    /\ UNCHANGED <<clock, appVars>>

\* DSPyInterviewAssistant.answer_question(q), with what the schema queries,
\* the language model and mem0 do during the call.
AnswerQuestionCall(q, sch, llm, m0) ==
    /\ sch \in SchemaOutcomes(extractor)
    /\ m0 \in Mem0Outcomes(memory)
    /\ StoredCount(memory) < MaxAdds
    /\ \E p \in {ProcessQuestion(memory, extractor, q, sch, llm, m0)} :
         \E ret \in {AnswerQuestionReturn(p)} :
         /\ p.queried => db_queries < MaxQueries
         /\ memory' = p.memory
         /\ extractor' = p.extractor
         /\ adds' = IF p.raised THEN adds ELSE adds + 1
         /\ db_queries' = db_queries + (IF p.queried THEN 1 ELSE 0)
         /\ mem_out' = [NoOut EXCEPT !.call = "answer_question",
                                     !.kind = ret.kind, !.text = ret.text]
    /\ UNCHANGED <<clock, appVars>>

\* InterviewBot.clear_conversation -> ConversationMemory.clear_session
ClearConversationCall ==
    /\ memory' = ClearSession(memory, clock)
    /\ adds' = 0
    /\ mem_out' = [NoOut EXCEPT !.call = "clear_conversation"]
    /\ UNCHANGED <<extractor, db_queries, clock, appVars>>

\* InterviewBot.get_conversation_summary
GetConversationSummaryCall ==
    /\ mem_out' = [NoOut EXCEPT !.call = "get_conversation_summary",
                                !.summary = GetConversationSummary(memory)]
    /\ UNCHANGED <<memory, adds, schemaVars, clock, appVars>>

\* ConversationMemory.get_relevant_context(q)
GetRelevantContextCall(q, found) ==
    /\ found \in SearchOutcomes(memory)
    /\ \E ctx \in {GetRelevantContext(memory, q, found)} :
         mem_out' = [NoOut EXCEPT !.call = "get_relevant_context",
                                  !.kind = ctx.kind,
                                  !.context = ctx.questions]
    /\ UNCHANGED <<memory, adds, schemaVars, clock, appVars>>

\* SimpleSchemaExtractor.get_schema_context()
GetSchemaContextCall(sch) ==
    /\ sch \in SchemaOutcomes(extractor)
    /\ \E sc \in {GetSchemaContext(extractor, sch)} :
         /\ sc.queried => db_queries < MaxQueries
         /\ extractor' = sc.extractor
         /\ db_queries' = db_queries + (IF sc.queried THEN 1 ELSE 0)
         /\ mem_out' = [NoOut EXCEPT !.call = "get_schema_context",
                                     !.schema = sc.returned]
    /\ UNCHANGED <<memory, adds, clock, appVars>>

\* A second passes.
Tick ==
    /\ clock < MaxClock
    /\ clock' = clock + 1
    /\ UNCHANGED <<memory, adds, mem_out, schemaVars, appVars>>

NextAssistant ==
    \/ \E q \in AssistantQuestions, sch \in AllSchemaOutcomes,
          llm \in AssistantLlmOutcomes, m0 \in AllMem0Outcomes :
          AnswerQuestionCall(q, sch, llm, m0)
    \/ ClearConversationCall
    \/ GetConversationSummaryCall
    \/ \E q \in AssistantQuestions, found \in AllSearchOutcomes :
          GetRelevantContextCall(q, found)
    \/ Tick

SpecAssistant == InitAssistant /\ [][NextAssistant]_vars

\* ------------------------------------- answer_question and the schema
\* ------------------------------------- extractor behind it

\* The memory is local; the Neo4j driver was created or not.
InitSchema ==
    /\ ongoing_requests = EmptyDict
    /\ ai_assistant = NewBot("built")
    /\ apc = [r \in Requests |-> "idle"]
    /\ question = [r \in Requests |-> <<>>]
    /\ session_id = [r \in Requests |-> Unbound]
    /\ response_text = [r \in Requests |-> None]
    /\ result = [r \in Requests |-> None]
    /\ reply = [r \in Requests |-> NoReply]
    /\ calls = [r \in Requests |-> 0]
    /\ cpc = [c \in Cancels |-> "idle"]
    /\ csid = [c \in Cancels |-> Unbound]
    /\ creply = [c \in Cancels |-> NoCancelReply]
    /\ hist = [r \in Requests |-> NoHist]
    /\ health = NoHealth
    /\ memory = NewMemory(0, FALSE)
    /\ \E connected \in BOOLEAN : extractor = NewExtractor(connected)
    /\ clock = 0
    /\ mem_out = NoOut
    /\ adds = 0
    /\ db_queries = 0

\* The calls that reach get_schema_context: the method itself, and
\* answer_question through _build_personal_context, whatever the language
\* model then does.
NextSchema ==
    \/ \E sch \in AllSchemaOutcomes : GetSchemaContextCall(sch)
    \/ \E sch \in AllSchemaOutcomes, llm \in LlmOutcomes,
          m0 \in AllMem0Outcomes :
          AnswerQuestionCall(QHello, sch, llm, m0)
    \/ ClearConversationCall

SpecSchema == InitSchema /\ [][NextSchema]_vars

\* ================================================================== claims

\* An ask request is between its registration (line 126) and its retirement
\* (the pop of line 142).
InFlight(r) == apc[r] \in {"check1", "generate", "finally"}

\* C1: in every reachable state a session id is a key of ongoing_requests
\* if and only if at least one ask request for that id is between its
\* registration and its retirement.
C1_TrackedIffInFlight ==
    \A s \in SessionIds :
        DictHas(ongoing_requests, s)
            <=> \E r \in Requests : session_id[r] = s /\ InFlight(r)

\* The request has registered its session id and has not returned yet.
Registered(r) ==
    \/ InFlight(r)
    \/ apc[r] = "except" /\ session_id[r] # Unbound

\* C2: every ask request that registered its session id has removed that
\* id's entry when its response is returned, on every exit path: in the step
\* that runs the request's own pop the entry is gone, and a registered
\* request returns only through such a step (the answer and both
\* 'Request was cancelled' results through the finally clause, the
\* exception through the finally clause and then the except clause).
C2_RetiredBeforeReturn ==
    [][\A r \in Requests :
          /\ (Registered(r) /\ apc'[r] # apc[r] /\ apc[r] \in {"finally", "except"})
                => ~DictHas(ongoing_requests', session_id[r])
          /\ (Registered(r) /\ apc'[r] = "done")
                => /\ apc[r] \in {"finally", "except"}
                   /\ ~DictHas(ongoing_requests', session_id[r])
                   /\ reply'[r].status \in {200, 500}]_vars

\* Two requests have returned after registering, one through the exception
\* path and one with the cancellation result, and the table holds no entry.
C2_Witness ==
    \E r1, r2 \in Requests :
        /\ apc[r1] = "done" /\ reply[r1] = Reply500
        /\ apc[r2] = "done" /\ reply[r2].response = CancelledText
        /\ ongoing_requests = EmptyDict

AllReturned ==
    /\ \A r \in Requests : apc[r] \in {"idle", "done"}
    /\ \A c \in Cancels : cpc[c] \in {"idle", "done"}

\* The ask requests that were received.
Started == {r \in Requests : apc[r] # "idle"}

\* C3: with one ask request for sid and any number of cancels for sid, once
\* all calls have returned ongoing_requests holds no entry for sid.
C3_RetiredWhateverTheTiming ==
    (AllReturned /\ Cardinality(Started) = 1)
        => \A r \in Started :
              session_id[r] # Unbound => ~DictHas(ongoing_requests, session_id[r])

DistinctIds ==
    \A r1, r2 \in Started :
        (r1 # r2 /\ session_id[r1] # Unbound) => session_id[r1] # session_id[r2]

\* C4: when the ask requests use pairwise-distinct session ids, after all of
\* them have returned ongoing_requests is empty, and a request returns
\* 'Request was cancelled' only if a cancel for its own id wrote False before
\* one of its two liveness checks.
C4_NoLeakNoInterference ==
    /\ []((DistinctIds /\ \A r \in Requests : apc[r] \in {"idle", "done"})
            => ongoing_requests = EmptyDict)
    /\ [][\A r \in Requests :
            (DistinctIds /\ apc[r] = "finally" /\ apc'[r] = "done"
                /\ reply'[r].response = CancelledText)
              => (hist[r].sig[1] # "none" \/ hist[r].sig[2] # "none")]_vars

\* The body carries no question, or one that is empty or only whitespace.
BlankQuestion(data) ==
    /\ data.json
    /\ \/ data.question.kind = "missing"
       \/ /\ data.question.kind = "str"
          /\ \A i \in 1..Len(data.question.text) :
                data.question.text[i] \in Whitespace

\* C5: an ask request whose question is missing, empty or only whitespace is
\* answered 400 with success false and 'No question provided', and its
\* handling leaves ongoing_requests as it was: no entry is created for its
\* session id, and no existing entry is changed or removed.
C5_BlankQuestionRejected ==
    [][\A r \in Requests :
          (apc[r] = "idle" /\ apc'[r] # "idle")
            => \A data \in AskBodies :
                  (BlankQuestion(data) /\ AskReceive(r, data))
                    => /\ reply'[r].status = 400
                       /\ reply'[r].success = FALSE
                       /\ reply'[r].error = "No question provided"
                       /\ apc'[r] = "done"
                       /\ ongoing_requests' = ongoing_requests]_vars

\* A request was rejected with 400 while another request's entry for the
\* same session id was in the table, and the entry is still there.
C5_Witness ==
    \E r, r2 \in Requests :
        /\ reply[r] = Reply400
        /\ r2 # r /\ InFlight(r2) /\ session_id[r2] = session_id[r]
        /\ DictHas(ongoing_requests, session_id[r])

\* The request is answered 200 with `text` and its own session id.
Answered(rep, text, sid) ==
    /\ rep.status = 200
    /\ rep.json
    /\ rep.success = TRUE
    /\ rep.response = text
    /\ rep.session_id = sid

\* C6 as claimed: if a cancel for sid wrote False after the request's
\* registration and before its first liveness check, the request returns
\* 'Request was cancelled' and the answer source is never invoked for it.
C6_CancelBeforeFirstCheck ==
    /\ [](\A r \in Requests :
            (hist[r].sig[1] # "none" /\ Phase(apc[r]) \in {2, 3})
              => /\ apc[r] = "finally"
                 /\ calls[r] = 0
                 /\ result[r] = CancelledText)
    /\ [][\A r \in Requests :
            (hist[r].sig[1] # "none" /\ apc[r] = "finally" /\ apc'[r] # "finally")
              => /\ apc'[r] = "done"
                 /\ calls'[r] = 0
                 /\ Answered(reply'[r], CancelledText, session_id[r])]_vars

\* C6 amended: the same, provided no other ask request registers sid between
\* that cancel and the first liveness check.
C6_CancelBeforeFirstCheckNoReregister ==
    /\ [](\A r \in Requests :
            (hist[r].sig[1] = "cancelled" /\ Phase(apc[r]) \in {2, 3})
              => /\ apc[r] = "finally"
                 /\ calls[r] = 0
                 /\ result[r] = CancelledText)
    /\ [][\A r \in Requests :
            (hist[r].sig[1] = "cancelled" /\ apc[r] = "finally" /\ apc'[r] # "finally")
              => /\ apc'[r] = "done"
                 /\ calls'[r] = 0
                 /\ Answered(reply'[r], CancelledText, session_id[r])]_vars

\* A request was cancelled between its registration and its first check,
\* has made that check, and holds the cancellation result without having
\* called the answer source.
C6_Witness ==
    \E r \in Requests :
        /\ apc[r] = "finally"
        /\ hist[r].sig[1] = "cancelled"
        /\ result[r] = CancelledText
        /\ calls[r] = 0

\* C7: if a cancel for sid wrote False after the request's first liveness
\* check and before its second, and no other request registered sid in
\* between, the generated answer is discarded and the request returns
\* 'Request was cancelled'.
C7_CancelDuringGeneration ==
    /\ [](\A r \in Requests :
            (hist[r].sig[2] = "cancelled" /\ apc[r] = "finally" /\ result[r] # Raised)
              => /\ result[r] = CancelledText
                 /\ response_text[r] # None
                 /\ calls[r] = 1)
    /\ [][\A r \in Requests :
            (hist[r].sig[2] = "cancelled" /\ apc[r] = "finally" /\ result[r] # Raised
                /\ apc'[r] # "finally")
              => /\ apc'[r] = "done"
                 /\ Answered(reply'[r], CancelledText, session_id[r])]_vars

\* A request was cancelled while it generated, has an answer in hand and
\* holds the cancellation result instead.
C7_Witness ==
    \E r \in Requests :
        /\ apc[r] = "finally"
        /\ hist[r].sig[2] = "cancelled"
        /\ response_text[r] # None
        /\ result[r] = CancelledText

\* C8: a cancel that writes after the request's second liveness check does
\* not change the request's result: the request still returns the generated
\* answer, although the cancel found the entry and reported success.
C8_LateCancelIgnored ==
    [][/\ \A c \in Cancels :
            (cpc[c] = "write" /\ cpc'[c] = "done")
              => /\ creply'[c].success = TRUE
                 /\ result' = result
                 /\ response_text' = response_text
       /\ \A r \in Requests :
            (hist[r].late /\ apc[r] = "finally" /\ response_text[r] # None
                /\ result[r] = response_text[r] /\ apc'[r] # "finally")
              => /\ apc'[r] = "done"
                 /\ Answered(reply'[r], response_text[r], session_id[r])]_vars

\* A request passed its second check, a cancel then wrote to its entry and
\* reported success, and the request still holds the generated answer.
C8_Witness ==
    \E r \in Requests, c \in Cancels :
        /\ apc[r] = "finally"
        /\ hist[r].late
        /\ response_text[r] # None
        /\ result[r] = response_text[r]
        /\ csid[c] = session_id[r]
        /\ creply[c] = CancelFound
        /\ ongoing_requests[session_id[r]] = FALSE

\* C9: an ask request with a non-empty question whose session id no cancel
\* wrote to before its liveness checks and no concurrent request used, and
\* whose generate_response call returned, is answered 200 with success true,
\* the string generate_response returned for its question, and its own
\* session id.
C9_PlainAskAnswered ==
    [][\A r \in Requests :
          (Registered(r) /\ apc'[r] = "done" /\ result[r] # Raised
              /\ hist[r].sig = <<"none", "none">> /\ ~hist[r].shared)
            => /\ calls[r] = 1
               /\ question[r] # <<>>
               /\ \E out \in GenOutcomes(ai_assistant) :
                     response_text[r] = GenerateResponse(ai_assistant, question[r], out)
               /\ response_text[r] \notin {None, Raised}
               /\ Answered(reply'[r], response_text[r], session_id[r])]_vars

\* A request has been answered 200 with the fallback answer for its question.
C9_Witness ==
    \E r \in Requests :
        /\ apc[r] = "done"
        /\ ~ai_assistant
        /\ question[r] = Strip(QLimits)
        /\ Answered(reply[r], PushingBoundaries, session_id[r])

\* Ask request r registers session id s in this step.
RegistersNow(r, s) ==
    apc[r] = "idle" /\ apc'[r] = "check1" /\ session_id'[r] = s

\* C10: a cancel that finds the entry leaves its flag False; from then on the
\* id is not live, and every liveness check made for it gives the
\* cancellation result, until an ask request registers the id again: no
\* other step turns a False flag back to True.
C10_CancelledUntilRegister ==
    [][/\ \A c \in Cancels :
            (cpc[c] = "write" /\ cpc'[c] = "done")
              => /\ DictHas(ongoing_requests', csid[c])
                 /\ ongoing_requests'[csid[c]] = FALSE
       /\ \A s \in SessionIds :
            (DictHas(ongoing_requests, s) /\ ongoing_requests[s] = FALSE
                /\ ~\E r \in Requests : RegistersNow(r, s))
              => /\ DictGet(ongoing_requests', s, FALSE) = FALSE
                 /\ \A r \in Requests :
                      (session_id[r] = s /\ apc[r] \in {"check1", "generate"}
                          /\ apc'[r] # apc[r] /\ result'[r] # Raised)
                        => result'[r] = CancelledText]_vars

\* The flag of an id is False while a request for it still has a liveness
\* check to make.
C10_Witness ==
    \E r \in Requests :
        /\ apc[r] \in {"check1", "generate"}
        /\ DictHas(ongoing_requests, session_id[r])
        /\ ongoing_requests[session_id[r]] = FALSE

\* C11: A cancel request reports success exactly when its session id has an
\* entry at the moment cancel_response tests for it, whether the flag is true
\* or already false, and the flag is false once the request has written.  When
\* the id has no entry the request answers HTTP 200 with success false and
\* "No ongoing request to cancel", and the table is left as it was: no entry
\* is created.  A cancel of an id whose flag is already false leaves the table
\* as it is, so two cancels in a row leave what one cancel leaves.
C11_CancelTested(c) ==
    (cpc[c] = "idle" /\ cpc'[c] # "idle" /\ csid'[c] # Unbound) =>
        /\ ongoing_requests' = ongoing_requests
        /\ IF csid'[c] \in DOMAIN ongoing_requests
           THEN cpc'[c] = "write" /\ creply'[c] = creply[c]
           ELSE /\ cpc'[c] = "done"
                /\ creply'[c].status = 200
                /\ creply'[c].success = FALSE
                /\ creply'[c].message = "No ongoing request to cancel"

C11_CancelWritten(c) ==
    (cpc[c] = "write" /\ cpc'[c] = "done") =>
        /\ creply'[c].status = 200
        /\ creply'[c].success = TRUE
        /\ csid[c] \in DOMAIN ongoing_requests'
        /\ ongoing_requests'[csid[c]] = FALSE
        /\ \A s \in SessionIds \ {csid[c]} :
              /\ s \in DOMAIN ongoing_requests' <=> s \in DOMAIN ongoing_requests
              /\ s \in DOMAIN ongoing_requests =>
                    ongoing_requests'[s] = ongoing_requests[s]
        /\ (csid[c] \in DOMAIN ongoing_requests
                /\ ongoing_requests[csid[c]] = FALSE) =>
              ongoing_requests' = ongoing_requests

C11_CancelReportsPresence ==
    [][\A c \in Cancels :
          /\ C11_CancelTested(c)
          /\ C11_CancelWritten(c)
          /\ (~creply[c].success /\ creply'[c].success) => cpc[c] = "write"]_vars

\* A second cancel has found the entry whose flag an earlier cancel set false.
C11_Witness ==
    \E c \in Cancels :
        /\ cpc[c] = "write"
        /\ csid[c] \in DOMAIN ongoing_requests
        /\ ongoing_requests[csid[c]] = FALSE

\* C12: Registration sets the flag of its session id to true whatever the
\* entry was before (absent, true, or set false by a cancel), leaves every
\* other entry alone and does not fail.  When the id's flag had been set
\* false by a cancel aimed at an earlier request, the flag is true again
\* after the registration and that request's liveness checks pass: the
\* cancel signal is erased (last writer wins).
C12_RegisterOverwrites ==
    [][\A r \in Requests : \A s \in SessionIds :
          RegistersNow(r, s) =>
              /\ s \in DOMAIN ongoing_requests'
              /\ ongoing_requests'[s] = TRUE
              /\ \A r2 \in Requests :
                    (session_id[r2] = s /\ apc[r2] \in {"check1", "generate"}) =>
                        IsLive(ongoing_requests', session_id[r2])
              /\ \A t \in SessionIds \ {s} :
                    /\ t \in DOMAIN ongoing_requests'
                          <=> t \in DOMAIN ongoing_requests
                    /\ t \in DOMAIN ongoing_requests =>
                          ongoing_requests'[t] = ongoing_requests[t]]_vars

\* A request cancelled before its first check sees its id registered again.
C12_Witness ==
    \E r \in Requests :
        /\ apc[r] = "check1"
        /\ hist[r].sig[1] = "erased"
        /\ ongoing_requests[session_id[r]] = TRUE

\* The table with the entry of session id s left out.
Without(d, s) == [t \in (DOMAIN d) \ {s} |-> d[t]]

\* C13 (as stated): for any session id and any table the program can hold,
\* registering the id and retiring it at once gives back the table there was
\* before the registration.
C13_RegisterThenRetire ==
    \A s \in SessionIds :
        DictPop(DictSet(ongoing_requests, s, TRUE), s) = ongoing_requests

\* C13 (amended): the registration step of an ask request adds or overwrites
\* the entry of its id, its retirement step removes that entry and nothing
\* else, and for a session id that has no entry, registering and retiring at
\* once gives back the table there was before; for an id that has an entry
\* the pair removes that entry.
C13_RegisterThenRetireFresh ==
    /\ [](\A s \in SessionIds :
            LET registered == DictSet(ongoing_requests, s, TRUE)
                retired == DictPop(registered, s) IN
            /\ s \in DOMAIN registered /\ registered[s] = TRUE
            /\ Without(registered, s) = Without(ongoing_requests, s)
            /\ retired = Without(ongoing_requests, s)
            /\ s \notin DOMAIN ongoing_requests => retired = ongoing_requests
            /\ s \in DOMAIN ongoing_requests => retired # ongoing_requests)
    /\ [][\A r \in Requests :
            /\ RegistersNow(r, session_id'[r]) =>
                  /\ ongoing_requests'[session_id'[r]] = TRUE
                  /\ Without(ongoing_requests', session_id'[r])
                        = Without(ongoing_requests, session_id'[r])
            /\ (apc[r] = "finally" /\ apc'[r] # "finally") =>
                  ongoing_requests' = Without(ongoing_requests, session_id[r])]_vars

\* The first ask request has registered and retired its id with nothing else
\* going on, and the table is empty as it was before.
C13_Witness ==
    /\ apc[1] = "done"
    /\ reply[1].status = 200
    /\ \A r \in Requests \ {1} : apc[r] = "idle"
    /\ \A c \in Cancels : cpc[c] = "idle"
    /\ ongoing_requests = EmptyDict

\* C14: When an ask request makes a liveness check for its session id and
\* the id has no entry, the check yields a result that is neither true nor
\* false ("not found"), and the id is never taken to be still live.
C14_AbsentIsNotFound ==
    \A r \in Requests :
        (apc[r] \in {"check1", "generate"}
            /\ session_id[r] \notin DOMAIN ongoing_requests) =>
                /\ IsLive(ongoing_requests, session_id[r]) \notin {TRUE, FALSE}
                /\ IsLive(ongoing_requests, session_id[r]) # TRUE

\* C15: Whatever the body of an ask or cancel request (no JSON body, a null
\* question, no session_id), the handler itself answers: the reply is the
\* handler's JSON with a boolean success flag, and no exception leaves the
\* handler, its except clause included.
C15_NoExceptionEscapes ==
    /\ \A r \in Requests :
          apc[r] = "done" =>
              /\ reply[r] # ReplyEscaped
              /\ reply[r].json
              /\ reply[r].success \in BOOLEAN
              /\ reply[r].status \in {200, 400, 500}
    /\ \A c \in Cancels :
          cpc[c] = "done" =>
              /\ creply[c] \in {CancelFound, CancelNotFound, CancelError}
              /\ creply[c].success \in BOOLEAN

C17_FallbackWhenUnavailable ==
    /\ NewBot("raises") = FALSE
    /\ ai_assistant = NewBot("raises")
    /\ \A r \in Requests :
          /\ apc[r] = "finally" =>
                response_text[r] \in {None, FallbackResponse(question[r])}
          /\ result[r] # Raised
          /\ result[r] # None =>
                /\ result[r] \in {response_text[r], CancelledText}
                /\ response_text[r] = None => calls[r] = 0
          /\ (apc[r] = "done" /\ session_id[r] # Unbound /\ question[r] # <<>>) =>
                Answered(reply[r], result[r], session_id[r])
          /\ reply[r] # Reply500

\* With no assistant, an ask request has been answered by the fallback.
C17_Witness ==
    \E r \in Requests :
        /\ ~ai_assistant
        /\ apc[r] = "done"
        /\ calls[r] = 1
        /\ reply[r].status = 200
        /\ reply[r].response = FallbackResponse(question[r])
        /\ reply[r].response = LifeStory

\* The keyword groups in the order the claim gives them, each with its answer.
KeywordGroups ==
    << [keywords |-> {KwLifeStory, KwBackground}, answer |-> LifeStory],
       [keywords |-> {KwSuperpower, KwStrength}, answer |-> Superpower],
       [keywords |-> {KwGrowth, KwImprove}, answer |-> GrowthAreas],
       [keywords |-> {KwMisconception}, answer |-> Misconception],
       [keywords |-> {KwBoundaries, KwLimits}, answer |-> PushingBoundaries] >>

\* Group i has a keyword in the lower-cased question ql.
GroupMatches(i, ql) ==
    \E k \in KeywordGroups[i].keywords : Contains(k, ql)

FirstMatch(ql) ==
    IF \E i \in DOMAIN KeywordGroups : GroupMatches(i, ql)
    THEN KeywordGroups[CHOOSE i \in DOMAIN KeywordGroups :
            GroupMatches(i, ql) /\ \A j \in 1..(i - 1) : ~GroupMatches(j, ql)].answer
    ELSE Generic

\* The answers expected for the questions asked.
ExpectedAnswers ==
    { <<QBackground, LifeStory>>, <<QLifeStory, LifeStory>>,
      <<QSuperpower, Superpower>>, <<QStrength, Superpower>>,
      <<QStrengthBackground, LifeStory>>, <<QGrowth, GrowthAreas>>,
      <<QLimitsImprove, GrowthAreas>>,
      <<QBoundariesMisconception, Misconception>>,
      <<QBoundaries, PushingBoundaries>>,
      <<Strip(QLimits), PushingBoundaries>>,
      <<QLifestory, Generic>>, <<QHello, Generic>> }

\* C18: The fallback answers with the answer of the first keyword group, in
\* the order life story, superpower, growth, misconception, boundaries, that
\* has a keyword in the lower-cased question: a question containing
\* "background" gets exactly life_story; one containing "superpower" or
\* "strength" and no keyword of the first group gets superpower; one with no
\* keyword gets the generic sentence naming role and experience.
C18_FirstKeywordGroupWins ==
    \A r \in Requests :
        (apc[r] = "finally" /\ response_text[r] # None) =>
            LET ql == Lower(question[r]) IN
            /\ <<question[r], response_text[r]>> \in ExpectedAnswers
            /\ response_text[r] = FirstMatch(ql)
            /\ Contains(KwBackground, ql) => response_text[r] = LifeStory
            /\ (GroupMatches(2, ql) /\ ~GroupMatches(1, ql)) =>
                  response_text[r] = Superpower
            /\ (\A i \in DOMAIN KeywordGroups : ~GroupMatches(i, ql)) =>
                  response_text[r] = Generic

\* A question with keywords of two groups, the second group's first in the
\* text, has got the first group's answer.
C18_Witness ==
    \E r \in Requests :
        /\ question[r] = QStrengthBackground
        /\ response_text[r] = LifeStory
        /\ apc[r] = "done"
        /\ reply[r].response = LifeStory

\* The strings _fallback_response can return.
FallbackAnswers ==
    {LifeStory, Superpower, GrowthAreas, Misconception, PushingBoundaries,
     Generic}

\* C19: The fallback is total and pure.  Whatever the question, the call
\* returns a non-empty string and raises nothing; it changes neither the
\* tracking table nor anything else outside the calling request; and it
\* returns, for a question already answered for another request, the same
\* string again, whatever the table holds by then.
C19_FallbackPureAndTotal ==
    [][\A r \in Requests :
          (apc[r] = "generate" /\ apc'[r] # "generate") =>
              /\ response_text'[r] \in FallbackAnswers
              /\ response_text'[r] # ""
              /\ result'[r] # Raised
              /\ apc'[r] = "finally"
              /\ ongoing_requests' = ongoing_requests
              /\ UNCHANGED <<ai_assistant, health, cancelVars, question,
                             session_id, reply, hist>>
              /\ UNCHANGED <<memory, extractor>>
              /\ \A r2 \in Requests \ {r} :
                    /\ response_text'[r2] = response_text[r2]
                    /\ result'[r2] = result[r2]
                    /\ (response_text[r2] # None /\ question[r2] = question[r]) =>
                          response_text'[r] = response_text[r2]]_vars

\* Two requests have asked the same question and both have their answer.
C19_Witness ==
    \E r1, r2 \in Requests :
        /\ r1 # r2
        /\ question[r1] = question[r2]
        /\ response_text[r1] # None
        /\ response_text[r1] = response_text[r2]
        /\ apc[r1] = "done"
        /\ apc[r2] = "finally"

\* C20: In every state, whatever the tracking table holds and whether or not
\* the assistant was built, a health check in which nothing raises answers
\* HTTP 200 with status "healthy"; its dspy_status is "initialized" exactly
\* when ai_assistant is set and "not available" otherwise; and the check
\* changes nothing but its own response.
C20_HealthyInEveryState ==
    /\ [](/\ HealthReply(ai_assistant, FALSE).status_code = 200
          /\ HealthReply(ai_assistant, FALSE).status = "healthy"
          /\ health # NoHealth =>
                /\ health.status_code \in {200, 500}
                /\ health.status_code = 200 <=> health.status = "healthy"
                /\ health.status = "healthy" =>
                      /\ health.dspy_status \in {"initialized", "not available"}
                      /\ health.dspy_status = "initialized" <=> ai_assistant
                      /\ health.dspy_status = "not available" <=> ~ai_assistant)
    /\ [][health' # health =>
            UNCHANGED <<ongoing_requests, ai_assistant, askVars, cancelVars,
                        hist>>]_vars

\* A health check has answered "healthy" while a request was tracked and the
\* assistant was missing.
C20_Witness ==
    /\ health.status_code = 200
    /\ health.status = "healthy"
    /\ health.dspy_status = "not available"
    /\ ~ai_assistant
    /\ ongoing_requests # EmptyDict

\* C21: Each ask request calls the answer source at most once: not before its
\* first liveness check, exactly once when that check passes, never when it
\* fails.  Only the generation step makes the call, so a generation that came
\* back with the apology, or raised, is not tried again.
C21_AtMostOneGeneration ==
    /\ [](\A r \in Requests :
            /\ calls[r] \in {0, 1}
            /\ apc[r] \in {"idle", "check1", "generate"} => calls[r] = 0
            /\ (response_text[r] # None \/ result[r] = Raised) => calls[r] = 1
            /\ (apc[r] \in {"finally", "done"} /\ result[r] = CancelledText
                    /\ response_text[r] = None) => calls[r] = 0)
    /\ [][\A r \in Requests :
            /\ (apc[r] = "check1" /\ apc'[r] # "check1") =>
                  IF IsLive(ongoing_requests, session_id[r])
                  THEN apc'[r] = "generate"
                  ELSE apc'[r] = "finally" /\ result'[r] = CancelledText
            /\ (apc[r] = "generate" /\ apc'[r] # "generate") =>
                  calls'[r] = calls[r] + 1
            /\ apc[r] # "generate" => calls'[r] = calls[r]]_vars

\* A request whose one call came back with the apology has returned it.
C21_Witness ==
    \E r \in Requests :
        /\ apc[r] = "done"
        /\ calls[r] = 1
        /\ response_text[r] = Trouble
        /\ reply[r].response = Trouble

\* C22: A request whose body has no session_id works on the key "default":
\* the ask registers "default", checks it and retires it, the cancel tests
\* and signals "default"; two such ask requests in flight have one entry
\* between them.
C22_OmittedIdIsDefault ==
    /\ [](/\ "default" \in SessionIds
          /\ DOMAIN ongoing_requests \subseteq SessionIds)
    /\ [][/\ \A r \in Requests :
               (apc[r] = "idle" /\ apc'[r] \in {"check1", "done"}) =>
                   \A data \in AskBodies :
                       (data.json /\ data.session_id = Missing
                            /\ AskReceive(r, data)) =>
                           /\ session_id'[r] = "default"
                           /\ apc'[r] = "check1" =>
                                 /\ "default" \in DOMAIN ongoing_requests'
                                 /\ ongoing_requests'["default"] = TRUE
          /\ \A r \in Requests :
               (session_id[r] = "default" /\ apc[r] = "finally"
                    /\ apc'[r] # "finally") =>
                   "default" \notin DOMAIN ongoing_requests'
          /\ \A c \in Cancels :
               (cpc[c] = "idle" /\ cpc'[c] # "idle") =>
                   \A data \in CancelBodies :
                       (data.json /\ data.session_id = Missing
                            /\ CancelReceive(c, data)) =>
                           /\ csid'[c] = "default"
                           /\ cpc'[c] = "write"
                                 <=> "default" \in DOMAIN ongoing_requests
          /\ \A c \in Cancels :
               (csid[c] = "default" /\ cpc[c] = "write" /\ cpc'[c] = "done") =>
                   ongoing_requests'["default"] = FALSE]_vars

\* Two ask requests without session_id are in flight and the table has the
\* one entry "default".
C22_Witness ==
    \E r1, r2 \in Requests :
        /\ r1 # r2
        /\ InFlight(r1) /\ InFlight(r2)
        /\ session_id[r1] = "default" /\ session_id[r2] = "default"
        /\ DOMAIN ongoing_requests = {"default"}

\* The lifecycle state of an ask request, read from the position of its
\* handler: CANCELLED and COMPLETED are the two ways of leaving the closure's
\* try block with a value or an exception, RETIRED is after the pop of the
\* finally clause.  A request that returns without registering is REJECTED.
LifecycleOf(pc, sid, q, res) ==
    IF pc = "idle" THEN "PENDING"
    ELSE IF sid = Unbound \/ q = <<>> THEN "REJECTED"
    ELSE IF pc \in {"check1", "generate"} THEN "REGISTERED"
    ELSE IF pc = "finally"
         THEN (IF res = CancelledText THEN "CANCELLED" ELSE "COMPLETED")
    ELSE "RETIRED"

Lifecycle(r) == LifecycleOf(apc[r], session_id[r], question[r], result[r])

LifecycleSteps ==
    {<<"PENDING", "REGISTERED">>, <<"PENDING", "REJECTED">>,
     <<"REGISTERED", "CANCELLED">>, <<"REGISTERED", "COMPLETED">>,
     <<"CANCELLED", "RETIRED">>, <<"COMPLETED", "RETIRED">>}

\* C23: every ask request that registered goes PENDING -> REGISTERED ->
\* (CANCELLED | COMPLETED) -> RETIRED; RETIRED is left by no step and a
\* returned request changes no more; a received request is never made to
\* wait, whatever the cancel requests do; and when the call of
\* generate_response comes back the registered request reaches RETIRED and
\* returns a response, under any number of cancels.
C23_RegisteredRunsToRetired ==
    /\ [][\A r \in Requests :
            LET a == Lifecycle(r)
                b == LifecycleOf(apc'[r], session_id'[r], question'[r],
                                 result'[r]) IN
            /\ a # b => <<a, b>> \in LifecycleSteps
            /\ apc[r] = "done" => (apc'[r] = "done" /\ reply'[r] = reply[r])]_vars
    /\ [](\A r \in Requests :
            /\ apc[r] = "check1" => ENABLED Check1(r)
            /\ apc[r] = "generate" => ENABLED Generate(r)
            /\ apc[r] = "finally" => ENABLED Finally(r)
            /\ apc[r] = "except" => ENABLED Except(r))
    /\ \A r \in Requests :
          (Lifecycle(r) = "REGISTERED")
              ~> (/\ Lifecycle(r) = "RETIRED"
                  /\ apc[r] = "done"
                  /\ reply[r].status \in {200, 500})

\* A registered request has returned its answer after two cancel calls for
\* its session id were served while it ran, and a third is being served.
C23_Witness ==
    \E r \in Requests, c \in Cancels :
        /\ Lifecycle(r) = "RETIRED" /\ apc[r] = "done"
        /\ reply[r].status = 200
        /\ hist[r] = NoHist
        /\ cpc[c] = "write" /\ csid[c] = session_id[r]

\* C24: a liveness check that finds no entry for the session id gives
\* 'Request was cancelled', exactly as one that finds False: with no cancel
\* issued, a request whose entry was removed by the retirement of another
\* request for the same id returns 'Request was cancelled'.
C24_RemovedEntryReadsAsCancelled ==
    [][\A r \in Requests :
          /\ (apc[r] = "check1" /\ apc'[r] # "check1"
                  /\ ~DictHas(ongoing_requests, session_id[r]))
                => /\ apc'[r] = "finally"
                   /\ result'[r] = CancelledText
                   /\ calls'[r] = 0
          /\ (apc[r] = "generate" /\ apc'[r] # "generate"
                  /\ ~DictHas(ongoing_requests, session_id[r])
                  /\ response_text'[r] # None)
                => result'[r] = CancelledText
          /\ (apc[r] = "finally" /\ apc'[r] = "done")
                => reply'[r].response = result[r]]_vars

\* No cancel request was ever received, both ask requests registered the
\* same id, one has retired and returned its answer, and the other found the
\* entry gone at its first liveness check and returned
\* 'Request was cancelled' without a call of generate_response.
C24_Witness ==
    /\ \A c \in Cancels : cpc[c] = "idle"
    /\ \E a, b \in Requests :
          /\ a # b
          /\ session_id[a] = session_id[b]
          /\ apc[b] = "done" /\ reply[b].status = 200
          /\ reply[b].response # CancelledText
          /\ apc[a] = "done" /\ reply[a].status = 200
          /\ reply[a].response = CancelledText
          /\ calls[a] = 0

\* C25: a generation in which the assistant produced its text stores the
\* interaction: conversation_history grows by one record, for the request's
\* question, whether or not the second liveness check then turns the result
\* into 'Request was cancelled'; no other step of an ask or cancel request
\* changes the memory, so the record is still there when the caller receives
\* 'Request was cancelled'.
C25_CancelKeepsStoredInteraction ==
    /\ [](Len(memory.conversation_history)
            = Cardinality({r \in Requests : response_text[r] = DSPyText}))
    /\ [][/\ \A r \in Requests :
               (apc[r] = "generate" /\ apc'[r] = "finally"
                    /\ response_text'[r] = DSPyText) =>
                   LET old == memory.conversation_history
                       new == memory'.conversation_history IN
                   /\ Len(new) = Len(old) + 1
                   /\ SubSeq(new, 1, Len(old)) = old
                   /\ new[Len(new)].question = question[r]
                   /\ new[Len(new)].response = DSPyText
                   /\ result'[r] \in {DSPyText, CancelledText}
                   /\ result'[r] = CancelledText
                         <=> ~IsLive(ongoing_requests, session_id[r])
          /\ (\A r \in Requests : ~(apc[r] = "generate" /\ apc'[r] = "finally"))
                => memory' = memory]_vars

\* A request passed its first check, was cancelled while the assistant
\* generated, and has returned 'Request was cancelled'; the cancel was
\* answered "Response cancelled", and the conversation history holds the
\* request's question with the discarded answer.
C25_Witness ==
    \E r \in Requests, c \in Cancels :
        /\ apc[r] = "done"
        /\ reply[r].status = 200 /\ reply[r].response = CancelledText
        /\ response_text[r] = DSPyText /\ calls[r] = 1
        /\ creply[c] = CancelFound /\ csid[c] = session_id[r]
        /\ \E i \in DOMAIN memory.conversation_history :
              /\ memory.conversation_history[i].question = question[r]
              /\ memory.conversation_history[i].response = DSPyText

NoDuplicate(list) ==
    \A i, j \in DOMAIN list : list[i] = list[j] => i = j

\* C27: the question_count of get_conversation_summary is the number of
\* add_interaction calls since the last clear_session (or since
\* construction); it is 0, with the summary 'No conversation yet', exactly
\* when that number is 0; the topics list has no duplicate.
C27_SummaryCountsSinceClear ==
    LET sm == GetConversationSummary(memory) IN
    /\ sm.question_count = adds
    /\ sm.summary = "No conversation yet" <=> adds = 0
    /\ sm.question_count = 0 <=> adds = 0
    /\ NoDuplicate(sm.topics)
    /\ mem_out.call = "get_conversation_summary" => mem_out.summary = sm

\* One question was asked, the session was cleared, the same question was
\* asked again, and the summary just given counts one question and one
\* topic.
C27_Witness ==
    /\ mem_out.call = "get_conversation_summary"
    /\ mem_out.summary.question_count = 1
    /\ mem_out.summary.topics = <<"personal">>
    /\ adds = 1
    /\ StoredCount(memory) = 2
    /\ memory.conversation_history[1].question = QStrength

\* C28: an add_interaction appends one record to conversation_history and
\* stores the interaction in one backing store: mem0 when mem0 is enabled
\* and its add returned, the local memory under the question's category when
\* mem0 is disabled or its add raised; a raising mem0 add does not make
\* the call raise.
C28_OneRecordOneStore ==
    [][\A q \in AssistantQuestions, llm \in AssistantLlmOutcomes,
          m0 \in AllMem0Outcomes :
          (AnswerQuestionCall(q, "no query", llm, m0) /\ ~llm.raises) =>
            LET old == memory.conversation_history
                new == memory'.conversation_history
                category == CategorizeQuestion(q)
                patterns == memory.local_memory.question_patterns
                before == IF category \in DOMAIN patterns
                          THEN patterns[category] ELSE <<>> IN
            /\ Len(new) = Len(old) + 1
            /\ SubSeq(new, 1, Len(old)) = old
            /\ new[Len(new)].question = q
            /\ new[Len(new)].response = llm.response
            /\ StoredCount(memory') = StoredCount(memory) + 1
            /\ mem_out'.kind # "error"
            /\ IF memory.memory_enabled /\ m0 = "stored"
               THEN /\ memory'.mem0 = Append(memory.mem0, new[Len(new)])
                    /\ memory'.local_memory = memory.local_memory
               ELSE /\ memory'.mem0 = memory.mem0
                    /\ category \in DOMAIN memory'.local_memory.question_patterns
                    /\ memory'.local_memory.question_patterns[category]
                          = Append(before, [question |-> q,
                                            response |-> llm.response])
                    /\ \A c \in DOMAIN patterns \ {category} :
                          memory'.local_memory.question_patterns[c]
                              = patterns[c]]_vars

\* mem0 is enabled; of two interactions the first went to mem0 and the
\* second, whose mem0 add raised, to the local memory.
C28_Witness ==
    /\ memory.memory_enabled
    /\ Len(memory.conversation_history) = 2
    /\ Len(memory.mem0) = 1
    /\ memory.mem0[1] = memory.conversation_history[1]
    /\ StoredCount(memory) = 2
    /\ \E c \in DOMAIN memory.local_memory.question_patterns :
          /\ Len(memory.local_memory.question_patterns[c]) = 1
          /\ memory.local_memory.question_patterns[c][1].question
                = memory.conversation_history[2].question
    /\ mem_out.call = "answer_question" /\ mem_out.kind # "error"

\* C29: answer_question returns in every case: the generated text when it
\* has at least 10 characters after trimming, the fixed apology when it is
\* empty or shorter, the error string when process_question raised; in the
\* too-short case the short response was stored in the conversation memory
\* all the same, and when process_question raised nothing was stored.
C29_AnswerQuestionReturns ==
    [][\A sch \in AllSchemaOutcomes, llm \in LlmOutcomes,
          m0 \in AllMem0Outcomes :
          AnswerQuestionCall(QHello, sch, llm, m0) =>
            LET old == memory.conversation_history
                new == memory'.conversation_history IN
            /\ mem_out'.call = "answer_question"
            /\ mem_out'.kind \in {"response", "apology", "error"}
            /\ llm.raises <=> mem_out'.kind = "error"
            /\ llm.raises => memory' = memory
            /\ (~llm.raises /\ llm.response = TextTen)
                  => (mem_out'.kind = "response" /\ mem_out'.text = TextTen)
            /\ (~llm.raises /\ llm.response \in {TextNine, TextPaddedNine, TextEmpty})
                  => mem_out'.kind = "apology"
            /\ mem_out'.kind = "response"
                  <=> (~llm.raises /\ Len(Strip(llm.response)) >= 10)
            /\ ~llm.raises =>
                  /\ Len(new) = Len(old) + 1
                  /\ new[Len(new)].question = QHello
                  /\ new[Len(new)].response = llm.response]_vars

\* answer_question has just returned the apology, and the last record of the
\* conversation history holds the nine characters, blanks around them, that
\* the model had generated.
C29_Witness ==
    /\ mem_out.call = "answer_question"
    /\ mem_out.kind = "apology"
    /\ memory.conversation_history # <<>>
    /\ memory.conversation_history[Len(memory.conversation_history)].response
          = TextPaddedNine

\* C30: get_schema_context caches a successful extraction only: with the
\* cache set no call queries the database or changes the extractor, and the
\* call returns the cached string; a call without driver answers 'not
\* available' and one whose queries fail answers 'Schema extraction error',
\* both leaving schema_cache unset, so that the next call with a driver
\* queries again.
C30_OnlySuccessCached ==
    /\ [](/\ extractor.schema_cache \in SchemaTexts \cup {None}
          /\ extractor.schema_cache # None => extractor.driver)
    /\ [][/\ extractor.schema_cache # None =>
                (extractor' = extractor /\ db_queries' = db_queries)
          /\ \A sch \in AllSchemaOutcomes :
                GetSchemaContextCall(sch) =>
                  /\ mem_out'.call = "get_schema_context"
                  /\ extractor.schema_cache # None
                        => mem_out'.schema = extractor.schema_cache
                  /\ (extractor.schema_cache = None /\ ~extractor.driver)
                        => /\ mem_out'.schema = SchemaUnavailable
                           /\ extractor'.schema_cache = None
                           /\ db_queries' = db_queries
                  /\ (extractor.schema_cache = None /\ extractor.driver)
                        => /\ db_queries' = db_queries + 1
                           /\ mem_out'.schema \in SchemaTexts \cup {SchemaError}
                           /\ mem_out'.schema = SchemaError
                                 => extractor'.schema_cache = None
                           /\ mem_out'.schema \in SchemaTexts
                                 => extractor'.schema_cache = mem_out'.schema
          /\ \A sch \in AllSchemaOutcomes, llm \in LlmOutcomes,
                m0 \in AllMem0Outcomes :
                AnswerQuestionCall(QHello, sch, llm, m0) =>
                  /\ extractor'.schema_cache \in {extractor.schema_cache, sch}
                  /\ db_queries' = db_queries
                        + (IF extractor.schema_cache = None /\ extractor.driver
                           THEN 1 ELSE 0)]_vars

\* Two extractions were run, the first failed and the second succeeded; the
\* call just made returned the cached text.
C30_Witness ==
    /\ db_queries = 2
    /\ extractor.schema_cache \in SchemaTexts
    /\ mem_out.call = "get_schema_context"
    /\ mem_out.schema = extractor.schema_cache

====
